---- MODULE Spec2Model ----
(***************************************************************************)
(* Model of app.py: the sales ledger (ventas), its mark-paid and delete    *)
(* handlers, the pricing calculator of /productos, the cash flow of /flujo *)
(* and the dashboard with its alerts.                                      *)
(*                                                                         *)
(* The amounts of sales and expenses (Float columns) are integers counting *)
(* thousandths of a currency unit, so that round(value, 2) has something   *)
(* to round; quantities and percents are whole numbers.  The calculator,   *)
(* which divides by 100, takes its cost in whole units and works in        *)
(* hundredths of a unit (exact rationals).                                 *)
(* Form fields are strings, converted by float()/int()/parse_date() as the *)
(* code converts them; a conversion that raises makes the handler take its *)
(* except branch.                                                          *)
(***************************************************************************)
EXTENDS Integers, Sequences, FiniteSets, TLC

VARIABLES
    users,      \* table user:    id -> [username, password, is_admin]
    session,    \* one Flask session (cookie) per browser: [user_id, user, is_admin]
    sales,      \* table sale:    id -> Sale row
    products,   \* table product: id -> Product row
    expenses,   \* table expense: id -> Expense row
    environ,    \* os.environ: the variables the code reads
    today,      \* datetime.date.today(), a day number (2024-01-01 is day 1)
    resp        \* the response to the latest request

vars == <<users, session, sales, products, expenses, environ, today, resp>>

(***************************************************************************)
(* Bounds of the model                                                     *)
(***************************************************************************)
MaxSales == 2       \* rows the sale table may hold at once
MaxProducts == 2    \* rows the product table may hold at once
MaxTopSales == 6    \* sales the ledger of the products chart may hold
MaxWeekSales == 3   \* sales the ledger of the weeks chart may hold
MaxFlujoSales == 3  \* sales the ledger of the cash flow may hold
MaxExpenses == 2    \* rows the expense table may hold at once
MaxSessions == 2    \* browsers with a session at the same time
MaxUserId == 3      \* largest id the user table gives out

(***************************************************************************)
(* Python values                                                           *)
(***************************************************************************)
\* None, for a nullable column or an absent session key
None == <<>>
\* a present value of a nullable column or session key
Some(x) == <<x>>

\* the empty table
EmptyTable == [i \in {} |-> None]

\* max() of a set of row ids, 0 for the empty set
MaxId(S) == IF S = {} THEN 0 ELSE CHOOSE m \in S : \A i \in S : i <= m

\* .first() of a query without order_by: the row with the least id
FirstId(S) == CHOOSE m \in S : \A i \in S : m <= i

\* the id the database gives a new row: one past the largest rowid in use
NextId(table) == MaxId(DOMAIN table) + 1

\* table with row `row` added under id `id`
Insert(table, id, row) ==
    [i \in DOMAIN table \cup {id} |-> IF i = id THEN row ELSE table[i]]

\* table without row id
Delete(table, id) == [i \in DOMAIN table \ {id} |-> table[i]]

(***************************************************************************)
(* Conversions of form fields                                              *)
(***************************************************************************)
\* str.strip() on the strings the forms send
strip(s) ==
    CASE s = " " -> ""
      [] s = " Ana " -> "Ana"
      [] s = " ana " -> "ana"
      [] s = " Pan " -> "Pan"
      [] s = " Luz " -> "Luz"
      [] OTHER -> s

\* the numerals the forms send
Numerals ==
    {"-1", "0", "1", "2", "3", "5", "7.00", "10", "20", "50", "60", "3.004"}

\* float(s) raises ValueError on a string that is no numeral
IsNumeral(s) == s \in Numerals

\* int(s) raises ValueError on a numeral with a decimal point too
IsIntNumeral(s) == s \in Numerals \ {"7.00", "3.004"}

\* float(s) or int(s) of a numeral that denotes a whole number
ToNumber(s) ==
    CASE s = "-1" -> -1 [] s = "0" -> 0 [] s = "1" -> 1 [] s = "2" -> 2
      [] s = "3" -> 3 [] s = "5" -> 5 [] s = "7.00" -> 7 [] s = "10" -> 10
      [] s = "20" -> 20 [] s = "50" -> 50 [] s = "60" -> 60

\* float(s) of a numeral that denotes an amount, in thousandths
to_float(s) == IF s = "3.004" THEN 3004 ELSE ToNumber(s) * 1000

\* the ISO dates the forms send
IsoDates ==
    {"2023-12-31", "2024-01-03", "2024-01-05", "2024-01-09", "2024-03-11",
     "2024-12-30"}

\* datetime.date.fromisoformat(s) as a day number
fromisoformat(s) ==
    CASE s = "2023-12-31" -> 0 [] s = "2024-01-03" -> 3 [] s = "2024-01-05" -> 5
      [] s = "2024-01-09" -> 9 [] s = "2024-03-11" -> 71 [] s = "2024-12-30" -> 365

\* parse_date: None for an empty or malformed value
parse_date(value) ==
    IF value = "" THEN None
    ELSE IF value \in IsoDates THEN Some(fromisoformat(value))
    ELSE None

(***************************************************************************)
(* Sessions                                                                *)
(***************************************************************************)
\* session.clear(): no key is set
ClearedSession == [user_id |-> None, user |-> None, is_admin |-> FALSE]

\* session.get("user_id") is truthy
LoggedIn(s) == session[s].user_id # None

\* current_user_id()
current_user_id(s) == session[s].user_id

\* current_is_admin()
current_is_admin(s) == session[s].is_admin

\* User.query.filter_by(username=username).first()
UserByName(username) ==
    LET ids == {i \in DOMAIN users : users[i].username = username}
    IN IF ids = {} THEN None ELSE Some(FirstId(ids))

(***************************************************************************)
(* Responses                                                               *)
(***************************************************************************)
\* redirect(url_for(to, success=success)) answering handler op on row id
Redirect(op, id, to, success) ==
    [op |-> op, id |-> id, redirect |-> to, error |-> "", success |-> success,
     ctx |-> None]

\* render_template(..., error=error, success=success, **ctx)
Render(op, error, success, ctx) ==
    [op |-> op, id |-> 0, redirect |-> "", error |-> error, success |-> success,
     ctx |-> ctx]

(***************************************************************************)
(* /login and /logout                                                      *)
(***************************************************************************)
LoginUsernames == {"admin", " ana ", "zoe"}
LoginPasswords == {"admin", "ana-pw"}

login(s, username_field, password) ==
    /\ IF LoggedIn(s)
       THEN /\ resp' = Redirect("login", 0, "ventas", "")
            /\ UNCHANGED session
       ELSE LET username == strip(username_field)
                user == UserByName(username)
            IN IF user # None /\ users[user[1]].password = password
               THEN /\ session' = [session EXCEPT ![s] =
                                     [user_id |-> Some(user[1]),
                                      user |-> Some(users[user[1]].username),
                                      is_admin |-> users[user[1]].is_admin]]
                    /\ resp' = Redirect("login", 0, "ventas", "")
               ELSE /\ resp' = Render("login",
                                      "Usuario o contraseña incorrectos.", "", None)
                    /\ UNCHANGED session
    /\ UNCHANGED <<users, sales, products, today, expenses, environ>>

logout(s) ==
    /\ session' = [session EXCEPT ![s] = ClearedSession]
    /\ resp' = Redirect("logout", 0, "login", "")
    /\ UNCHANGED <<users, sales, products, today, expenses, environ>>

(***************************************************************************)
(* user_scope_query                                                        *)
(***************************************************************************)
\* ids of the rows of the sale table that user_scope_query(Sale) returns
user_scope_query_Sale(s, table) ==
    IF ~LoggedIn(s) THEN DOMAIN table
    ELSE IF current_is_admin(s) THEN DOMAIN table
    ELSE {i \in DOMAIN table : table[i].user_id = current_user_id(s)}

\* ids of the rows that user_scope_query(Product) returns
user_scope_query_Product(s, table) ==
    IF ~LoggedIn(s) THEN DOMAIN table
    ELSE IF current_is_admin(s) THEN DOMAIN table
    ELSE {i \in DOMAIN table : table[i].owner_id = current_user_id(s)}

(***************************************************************************)
(* /ventas: creation of a sale                                             *)
(***************************************************************************)
\* request.form of the sale form; an absent field reads as ""
\* (client_id is never sent: the sale names its client in the field name)
\* the form with every optional field left empty
DefaultsForm ==
    [date |-> "", name |-> " Ana ", product_select |-> " Pan ", product |-> "",
     status |-> "", cost_per_unit |-> "", price_per_unit |-> "",
     quantity |-> "", comment |-> "", payment_due_date |-> ""]

\* forms whose name, product and quantity pass the checks
GoodForms ==
    [date : {""},
     name : {" Ana "},
     product_select : {""},
     product : {"Pan"},
     status : {"", "Pagado", "Pendiente", "Anulado"},
     cost_per_unit : {"2"},
     price_per_unit : {"3"},
     quantity : {"2"},
     comment : {""},
     payment_due_date : {"", "2024-01-09"}]
    \cup {DefaultsForm}

\* forms with one field that fails a check or a conversion
BadForms ==
    LET base == {f \in GoodForms : /\ f.status \in {"Pagado", "Pendiente"}
                                   /\ f.quantity = "2"
                                   /\ f.payment_due_date = "2024-01-09"}
    IN UNION {{[f EXCEPT !.name = ""], [f EXCEPT !.name = " "],
               [f EXCEPT !.product = ""],
               [f EXCEPT !.quantity = "0"], [f EXCEPT !.quantity = "-1"],
               [f EXCEPT !.quantity = "abc"]} : f \in base}

VentasForms == GoodForms \cup BadForms

\* status = request.form.get("status") or "Pagado"
form_status(form) == IF form.status = "" THEN "Pagado" ELSE form.status

\* product = product_input or product_from_select
form_product(form) ==
    IF strip(form.product) # "" THEN strip(form.product)
    ELSE strip(form.product_select)

\* x or default, for a form field
OrDefault(x, default) == IF x = "" THEN default ELSE x

\* the exception a conversion of the numeric fields raises, "" when none does
ventas_conversion_error(form) ==
    IF ~IsNumeral(OrDefault(form.cost_per_unit, "0"))
    THEN "could not convert string to float"
    ELSE IF ~IsNumeral(OrDefault(form.price_per_unit, "0"))
    THEN "could not convert string to float"
    ELSE IF ~IsIntNumeral(OrDefault(form.quantity, "1"))
    THEN "invalid literal for int() with base 10"
    ELSE ""

\* ventas_validation_error with the check of the quantity off by one (< for <=)
ventas_validation_error_lt(name, product, quantity, status, payment_due_date) ==
    IF name = "" THEN "El nombre del cliente es obligatorio."
    ELSE IF product = "" THEN "Debes seleccionar o escribir un producto."
    ELSE IF quantity < 0 THEN "La cantidad debe ser mayor que cero."
    ELSE IF status = "Pendiente" /\ payment_due_date = None
    THEN "Debes indicar una fecha de pago para las ventas pendientes."
    ELSE ""

\* ventas_validation_error without the check of the quantity
ventas_validation_error_no_quantity(name, product, quantity, status, payment_due_date) ==
    IF name = "" THEN "El nombre del cliente es obligatorio."
    ELSE IF product = "" THEN "Debes seleccionar o escribir un producto."
    ELSE IF status = "Pendiente" /\ payment_due_date = None
    THEN "Debes indicar una fecha de pago para las ventas pendientes."
    ELSE ""

\* ventas_validation_error without the check of the due date
ventas_validation_error_no_due_date(name, product, quantity, status, payment_due_date) ==
    IF name = "" THEN "El nombre del cliente es obligatorio."
    ELSE IF product = "" THEN "Debes seleccionar o escribir un producto."
    ELSE IF quantity <= 0 THEN "La cantidad debe ser mayor que cero."
    ELSE ""

\* the ValueError the checks of the sale form raise, "" when none does
ventas_validation_error(name, product, quantity, status, payment_due_date) ==
    IF name = "" THEN "El nombre del cliente es obligatorio."
    ELSE IF product = "" THEN "Debes seleccionar o escribir un producto."
    ELSE IF quantity <= 0 THEN "La cantidad debe ser mayor que cero."
    ELSE IF status = "Pendiente" /\ payment_due_date = None
    THEN "Debes indicar una fecha de pago para las ventas pendientes."
    ELSE ""

\* total = price_per_unit * quantity
sale_total(price_per_unit, quantity) == price_per_unit * quantity

\* sale_profit with the cost of one unit only
sale_profit_unit_cost(price_per_unit, cost_per_unit, quantity) ==
    price_per_unit * quantity - cost_per_unit

\* profit = (price_per_unit - cost_per_unit) * quantity
sale_profit(price_per_unit, cost_per_unit, quantity) ==
    (price_per_unit - cost_per_unit) * quantity

\* sale_due_date that keeps the date whatever the status
sale_due_date_kept(status, payment_due_date) == payment_due_date

\* payment_due_date=payment_due_date if status == "Pendiente" else None
sale_due_date(status, payment_due_date) ==
    IF status = "Pendiente" THEN payment_due_date ELSE None

\* the exception the try block of the POST raises on form, "" when it commits
ventas_error(form) ==
    IF ventas_conversion_error(form) # "" THEN ventas_conversion_error(form)
    ELSE ventas_validation_error(
            strip(form.name), form_product(form),
            ToNumber(OrDefault(form.quantity, "1")), form_status(form),
            parse_date(form.payment_due_date))

\* Sale(...) as the POST builds it from a form that raises nothing
new_sale(form, uid, day) ==
    LET date == IF parse_date(form.date) = None THEN day
                ELSE parse_date(form.date)[1]
        status == form_status(form)
        cost_per_unit == to_float(OrDefault(form.cost_per_unit, "0"))
        price_per_unit == to_float(OrDefault(form.price_per_unit, "0"))
        quantity == ToNumber(OrDefault(form.quantity, "1"))
    IN [date |-> date,
        client_id |-> None,
        name |-> strip(form.name),
        product |-> form_product(form),
        status |-> status,
        cost_per_unit |-> cost_per_unit,
        price_per_unit |-> price_per_unit,
        quantity |-> quantity,
        total |-> sale_total(price_per_unit, quantity),
        profit |-> sale_profit(price_per_unit, cost_per_unit, quantity),
        comment |-> strip(form.comment),
        user_id |-> uid,
        payment_due_date |-> sale_due_date(status, parse_date(form.payment_due_date)),
        payment_reminder_sent |-> FALSE]

\* the sale table after the POST part of ventas()
ventas_post_sales(s, form) ==
    IF ventas_error(form) # "" THEN sales
    ELSE Insert(sales, NextId(sales), new_sale(form, current_user_id(s), today))

(***************************************************************************)
(* /ventas: the listing and its totals                                     *)
(***************************************************************************)
\* request.args of /ventas; an absent argument reads as ""
VentasArgs ==
    [filter_name : {""},
     filter_status : {"", "Pagado"},
     date_from : {""},
     date_to : {""},
     filter_user_id : {"", "2"}]

\* the form of the sale page posts to /ventas without a query string
NoArgs ==
    [filter_name |-> "", filter_status |-> "", date_from |-> "",
     date_to |-> "", filter_user_id |-> ""]

\* Sale.name.ilike("%pattern%") on the names and patterns of the model
ilike(name, pattern) ==
    pattern = "" \/ <<name, pattern>> \in {<<"Ana", "an">>, <<"Ana", "ANA">>}

\* ids of ids that apply_sales_filters keeps
apply_sales_filters(table, ids, filter_name, filter_status, date_from_str, date_to_str) ==
    LET date_from == parse_date(date_from_str)
        date_to == parse_date(date_to_str)
    IN {i \in ids :
          /\ filter_name # "" => ilike(table[i].name, filter_name)
          /\ filter_status # "" => table[i].status = filter_status
          /\ date_from # None => table[i].date >= date_from[1]
          /\ date_to # None => table[i].date <= date_to[1]}

\* the ids the listing of ventas() selects
ventas_query(s, table, args) ==
    LET scoped == user_scope_query_Sale(s, table)
        filtered == apply_sales_filters(table, scoped, args.filter_name,
                        args.filter_status, args.date_from, args.date_to)
    IN IF args.filter_user_id # "" /\ current_is_admin(s)
       THEN IF IsIntNumeral(args.filter_user_id)
            THEN {i \in filtered :
                    table[i].user_id = Some(ToNumber(args.filter_user_id))}
            ELSE filtered
       ELSE filtered

\* order_by(Sale.date.desc(), Sale.id.desc()): the ids as a sequence
RECURSIVE order_by_date_desc_id_desc(_, _)
order_by_date_desc_id_desc(table, ids) ==
    IF ids = {} THEN <<>>
    ELSE LET first == CHOOSE i \in ids : \A j \in ids :
                        \/ table[i].date > table[j].date
                        \/ table[i].date = table[j].date /\ i >= j
         IN <<first>> \o order_by_date_desc_id_desc(table, ids \ {first})

\* sum(float(row.total or 0) for row in rows)
RECURSIVE sum_total(_, _)
sum_total(table, rows) ==
    IF rows = <<>> THEN 0
    ELSE table[Head(rows)].total + sum_total(table, Tail(rows))

\* sum(float(row.profit or 0) for row in rows)
RECURSIVE sum_profit(_, _)
sum_profit(table, rows) ==
    IF rows = <<>> THEN 0
    ELSE table[Head(rows)].profit + sum_profit(table, Tail(rows))

\* the rows of rows whose status is status, in the same order
with_status(table, rows, status) ==
    SelectSeq(rows, LAMBDA i : table[i].status = status)

\* total_pagado = sum(float(s.total or 0) for s in sales if s.status == "Pagado")
total_pagado(table, rows) == sum_total(table, with_status(table, rows, "Pagado"))

\* total_pendiente that counts every listed sale
total_pendiente_all(table, rows) == sum_total(table, rows)

\* total_pendiente = sum(float(s.total or 0) for s in sales if s.status == "Pendiente")
total_pendiente(table, rows) == sum_total(table, with_status(table, rows, "Pendiente"))

\* the template context of ventas.html: the listed sales and the totals
ventas_context(s, table, args) ==
    LET rows == order_by_date_desc_id_desc(table, ventas_query(s, table, args))
    IN [sales |-> [k \in DOMAIN rows |-> table[rows[k]]],
        ids |-> rows,
        total_ventas |-> Len(rows),
        total_monto |-> sum_total(table, rows),
        total_ganancia |-> sum_profit(table, rows),
        total_pagado |-> total_pagado(table, rows),
        total_pendiente |-> total_pendiente(table, rows)]

\* POST /ventas in session s: a sale is created, or the error is shown; then
\* the listing is rendered
ventas_post(s, form) ==
    /\ IF ~LoggedIn(s)
       THEN /\ resp' = Redirect("ventas", 0, "login", "")
            /\ UNCHANGED sales
       ELSE LET e == ventas_error(form)
            IN /\ e = "" => Cardinality(DOMAIN sales) < MaxSales
               /\ sales' = ventas_post_sales(s, form)
               /\ resp' = Render("ventas_post",
                      IF e # "" THEN "Error al guardar la venta: " \o e ELSE "",
                      IF e # "" THEN "" ELSE "Venta guardada correctamente.",
                      ventas_context(s, sales', NoArgs))
    /\ UNCHANGED <<users, session, products, today, expenses, environ>>

\* GET /ventas in session s: the listing is rendered
ventas_get(s, args) ==
    /\ IF ~LoggedIn(s)
       THEN resp' = Redirect("ventas", 0, "login", "")
       ELSE resp' = Render("ventas_get", "", "", ventas_context(s, sales, args))
    /\ UNCHANGED <<users, session, sales, products, today, expenses, environ>>

(***************************************************************************)
(* /ventas/<sale_id>/delete and /ventas/<sale_id>/paid                     *)
(***************************************************************************)
\* may_modify_sale without the comparison of the owner
may_modify_sale_any(s, sale) == LoggedIn(s)

\* the caller of session s may delete or modify sale:
\* not ((not is_admin_flag) and sale.user_id != uid)
may_modify_sale(s, sale) ==
    current_is_admin(s) \/ sale.user_id = current_user_id(s)

\* paid_sale that switches the status instead of setting it
paid_sale_toggle(sale) ==
    [sale EXCEPT !.status = IF @ = "Pagado" THEN "Pendiente" ELSE "Pagado",
                 !.payment_due_date = None,
                 !.payment_reminder_sent = FALSE]

\* paid_sale that recomputes the profit of the sale it marks
paid_sale_recomputed(sale) ==
    [sale EXCEPT !.status = "Pagado",
                 !.payment_due_date = None,
                 !.payment_reminder_sent = FALSE,
                 !.profit = sale.total]

\* the row after mark_sale_paid's three assignments
paid_sale(sale) ==
    [sale EXCEPT !.status = "Pagado",
                 !.payment_due_date = None,
                 !.payment_reminder_sent = FALSE]

delete_sale(s, sale_id) ==
    /\ IF ~LoggedIn(s)
       THEN /\ resp' = Redirect("delete_sale", sale_id, "login", "")
            /\ UNCHANGED sales
       ELSE IF sale_id \notin DOMAIN sales
       THEN /\ resp' = Render("delete_sale", "404 Not Found", "", None)
            /\ UNCHANGED sales
       ELSE IF ~may_modify_sale(s, sales[sale_id])
       THEN /\ resp' = Redirect("delete_sale", sale_id, "ventas",
                                "No tienes permiso para eliminar esa venta.")
            /\ UNCHANGED sales
       ELSE /\ sales' = Delete(sales, sale_id)
            /\ resp' = Redirect("delete_sale", sale_id, "ventas",
                                "Venta eliminada correctamente.")
    /\ UNCHANGED <<users, session, products, today, expenses, environ>>

mark_sale_paid(s, sale_id) ==
    /\ IF ~LoggedIn(s)
       THEN /\ resp' = Redirect("mark_sale_paid", sale_id, "login", "")
            /\ UNCHANGED sales
       ELSE IF sale_id \notin DOMAIN sales
       THEN /\ resp' = Render("mark_sale_paid", "404 Not Found", "", None)
            /\ UNCHANGED sales
       ELSE IF ~may_modify_sale(s, sales[sale_id])
       THEN /\ resp' = Redirect("mark_sale_paid", sale_id, "ventas",
                                "No tienes permiso para modificar esa venta.")
            /\ UNCHANGED sales
       ELSE /\ sales' = [sales EXCEPT ![sale_id] = paid_sale(sales[sale_id])]
            /\ resp' = Redirect("mark_sale_paid", sale_id, "ventas",
                                "Venta marcada como pagada.")
    /\ UNCHANGED <<users, session, products, today, expenses, environ>>

(***************************************************************************)
(* The sales ledger: sessions of the administrator and of one user         *)
(***************************************************************************)
\* the browsers with a session
Sessions == {"s1"}

\* the ids a request may name: those in use and the next one
SaleIds == 1 .. MaxSales

\* os.environ without the variables the code reads
NoEnviron == [ALERT_WEEKLY_PROFIT_MIN |-> None]

\* the user table at start: the bootstrap administrator and one plain user
InitUsers ==
    Insert(Insert(EmptyTable, 1,
        [username |-> "admin", password |-> "admin", is_admin |-> TRUE]), 2,
        [username |-> "ana", password |-> "ana-pw", is_admin |-> FALSE])

Init ==
    /\ users = InitUsers
    /\ session = [s \in Sessions |-> ClearedSession]
    /\ sales = EmptyTable
    /\ products = EmptyTable
    /\ expenses = EmptyTable
    /\ environ = NoEnviron
    /\ today = 5
    /\ resp = Render("start", "", "", None)

Next ==
    \/ \E s \in Sessions, u \in LoginUsernames, p \in LoginPasswords : login(s, u, p)
    \/ \E s \in Sessions : logout(s)
    \/ \E s \in Sessions, form \in VentasForms : ventas_post(s, form)
    \/ \E s \in Sessions, args \in VentasArgs : ventas_get(s, args)
    \/ \E s \in Sessions, id \in SaleIds : delete_sale(s, id)
    \/ \E s \in Sessions, id \in SaleIds : mark_sale_paid(s, id)

Spec == Init /\ [][Next]_vars

(***************************************************************************)
(* /productos: the pricing calculator and the catalog form                 *)
(*                                                                         *)
(* cost is in currency units and margin in percent, both whole numbers;    *)
(* prices and profits, which carry the factor margin/100, are in           *)
(* hundredths of a unit, so that cost * (1 + margin / 100.0) is exact.     *)
(***************************************************************************)
\* MIN_MARGIN_PERCENT = 7.0
MIN_MARGIN_PERCENT == 7

\* request.form of the calculator; an absent field reads as ""
\* forms whose cost and quantity pass the checks
GoodCalculatorForms ==
    [form_type : {"calculator"},
     product_name : {"", " Pan "},
     cost : {"50"},
     margin : {"", "5", "20"},
     quantity : {"", "3"},
     save_to_catalog : {"", "on"}]

\* forms whose cost or quantity fails a check or a conversion
BadCalculatorForms ==
    LET base == {f \in GoodCalculatorForms :
                    /\ f.product_name = " Pan " /\ f.quantity = "3"
                    /\ f.margin \in {"5", "20"} /\ f.save_to_catalog = "on"}
    IN UNION {{[f EXCEPT !.cost = ""], [f EXCEPT !.cost = "0"],
               [f EXCEPT !.cost = "-1"], [f EXCEPT !.cost = "abc"],
               [f EXCEPT !.quantity = "0"], [f EXCEPT !.quantity = "-1"],
               [f EXCEPT !.quantity = "abc"], [f EXCEPT !.margin = "abc"]}
              : f \in base}

CalculatorForms == GoodCalculatorForms \cup BadCalculatorForms

\* request.form of the catalog form
CatalogForms ==
    [form_type : {"catalog"},
     name : {"", "Pan"},
     cost : {"50"},
     price : {"", "60", "abc"}]

\* margin after "if margin < MIN_MARGIN_PERCENT: margin = MIN_MARGIN_PERCENT"
calculator_margin(margin) ==
    IF margin < MIN_MARGIN_PERCENT THEN MIN_MARGIN_PERCENT ELSE margin

\* calculator_input_error with the check of the cost off by one (< for <=)
calculator_input_error_lt(form) ==
    IF ~IsNumeral(OrDefault(form.cost, "0"))
    THEN "could not convert string to float"
    ELSE IF ~IsNumeral(OrDefault(form.margin, "7.00"))
    THEN "could not convert string to float"
    ELSE IF ~IsIntNumeral(OrDefault(form.quantity, "1"))
    THEN "invalid literal for int() with base 10"
    ELSE IF ToNumber(OrDefault(form.cost, "0")) < 0
    THEN "El costo debe ser mayor que cero."
    ELSE IF ToNumber(OrDefault(form.quantity, "1")) <= 0
    THEN "La cantidad debe ser mayor que cero."
    ELSE ""

\* the exception the calculator raises before it computes, "" when none
calculator_input_error(form) ==
    IF ~IsNumeral(OrDefault(form.cost, "0"))
    THEN "could not convert string to float"
    ELSE IF ~IsNumeral(OrDefault(form.margin, "7.00"))
    THEN "could not convert string to float"
    ELSE IF ~IsIntNumeral(OrDefault(form.quantity, "1"))
    THEN "invalid literal for int() with base 10"
    ELSE IF ToNumber(OrDefault(form.cost, "0")) <= 0
    THEN "El costo debe ser mayor que cero."
    ELSE IF ToNumber(OrDefault(form.quantity, "1")) <= 0
    THEN "La cantidad debe ser mayor que cero."
    ELSE ""

\* price_result = cost * (1 + margin / 100.0), in hundredths
price_result(cost, margin) == cost * (100 + margin)

\* profit_unit = price_result - cost, in hundredths
profit_unit(cost, margin) == price_result(cost, margin) - cost * 100

\* profit_total that is the profit of one unit, whatever the quantity
profit_total_one_unit(cost, margin, quantity) == profit_unit(cost, margin)

\* profit_total = profit_unit * quantity, in hundredths
profit_total(cost, margin, quantity) == profit_unit(cost, margin) * quantity

\* margin_used = (profit_unit / cost * 100.0) if cost > 0 else 0.0, in percent
margin_used(cost, margin) ==
    IF cost > 0 THEN profit_unit(cost, margin) \div cost ELSE 0

\* the four results the calculator shows: None until they are computed
calculator_results(form) ==
    IF calculator_input_error(form) # ""
    THEN [price_result |-> None, profit_unit |-> None, profit_total |-> None,
          margin_used |-> None]
    ELSE LET cost == ToNumber(OrDefault(form.cost, "0"))
             margin == calculator_margin(ToNumber(OrDefault(form.margin, "7.00")))
             quantity == ToNumber(OrDefault(form.quantity, "1"))
         IN [price_result |-> Some(price_result(cost, margin)),
             profit_unit |-> Some(profit_unit(cost, margin)),
             profit_total |-> Some(profit_total(cost, margin, quantity)),
             margin_used |-> Some(margin_used(cost, margin))]

\* the exception the calculator raises on form, "" when it raises none
calculator_error(form) ==
    IF calculator_input_error(form) # "" THEN calculator_input_error(form)
    ELSE IF form.save_to_catalog # "" /\ strip(form.product_name) = ""
    THEN "Para guardar en el catálogo debes indicar un nombre de producto."
    ELSE ""

\* user_scope_query(Product).filter_by(name=name).first()
product_by_name(s, name) ==
    LET ids == {i \in user_scope_query_Product(s, products) :
                    products[i].name = name}
    IN IF ids = {} THEN None ELSE Some(FirstId(ids))

\* the product table after a row named name is updated or added
upsert_product(s, name, cost, price, margin_percent) ==
    LET existing == product_by_name(s, name)
    IN IF existing # None
       THEN [products EXCEPT ![existing[1]] =
                [@ EXCEPT !.cost = cost, !.price = price,
                          !.margin_percent = margin_percent]]
       ELSE Insert(products, NextId(products),
                [name |-> name, cost |-> cost, price |-> price,
                 margin_percent |-> margin_percent,
                 owner_id |-> current_user_id(s)])

\* the product table after the calculator branch of the POST
calculator_products(s, form) ==
    IF calculator_error(form) # "" \/ form.save_to_catalog = "" THEN products
    ELSE LET r == calculator_results(form)
         IN upsert_product(s, strip(form.product_name),
                ToNumber(OrDefault(form.cost, "0")) * 100,
                r.price_result[1], r.margin_used[1])

\* the exception the catalog branch raises on form, "" when it raises none
catalog_error(form) ==
    IF ~IsNumeral(OrDefault(form.cost, "0"))
    THEN "could not convert string to float"
    ELSE IF ~IsNumeral(OrDefault(form.price, "0"))
    THEN "could not convert string to float"
    ELSE IF strip(form.name) = "" THEN "El nombre del producto es obligatorio."
    ELSE ""

\* margin_percent of the catalog branch (whole percents)
catalog_margin(cost, price) ==
    IF cost > 0 /\ price >= cost THEN ((price - cost) * 100) \div cost ELSE 0

\* the product table after the catalog branch of the POST
catalog_products(s, form) ==
    IF catalog_error(form) # "" THEN products
    ELSE LET cost == ToNumber(OrDefault(form.cost, "0"))
             price == ToNumber(OrDefault(form.price, "0"))
         IN upsert_product(s, strip(form.name), cost * 100, price * 100,
                catalog_margin(cost, price))

\* the template context of productos.html
productos_context(s, table, form, results) ==
    [products |-> user_scope_query_Product(s, table),
     min_margin |-> MIN_MARGIN_PERCENT,
     product_name_input |-> IF form.form_type = "calculator"
                            THEN strip(form.product_name) ELSE "",
     cost_input |-> IF form.form_type = "calculator"
                    THEN OrDefault(form.cost, "0") ELSE "",
     margin_input |-> IF form.form_type = "calculator"
                      THEN OrDefault(form.margin, "7.00") ELSE "7.00",
     quantity_input |-> IF form.form_type = "calculator"
                        THEN OrDefault(form.quantity, "1") ELSE "1",
     price_result |-> results.price_result,
     profit_unit |-> results.profit_unit,
     profit_total |-> results.profit_total,
     margin_used |-> results.margin_used]

\* the results of a request that computes nothing
NoResults ==
    [price_result |-> None, profit_unit |-> None, profit_total |-> None,
     margin_used |-> None]

\* POST /productos in session s
productos_post(s, form) ==
    /\ IF ~LoggedIn(s)
       THEN /\ resp' = Redirect("productos", 0, "login", "")
            /\ UNCHANGED products
       ELSE IF form.form_type = "calculator"
       THEN LET e == calculator_error(form)
            IN /\ (e = "" /\ form.save_to_catalog # ""
                     /\ product_by_name(s, strip(form.product_name)) = None)
                  => Cardinality(DOMAIN products) < MaxProducts
               /\ products' = calculator_products(s, form)
               /\ resp' = Render("productos_calculator",
                      IF e # "" THEN "Error en la calculadora: " \o e ELSE "",
                      IF e = "" /\ form.save_to_catalog # ""
                      THEN "Producto guardado/actualizado en el catálogo."
                      ELSE "",
                      productos_context(s, products', form,
                                        calculator_results(form)))
       ELSE LET e == catalog_error(form)
            IN /\ (e = "" /\ product_by_name(s, strip(form.name)) = None)
                  => Cardinality(DOMAIN products) < MaxProducts
               /\ products' = catalog_products(s, form)
               /\ resp' = Render("productos_catalog",
                      IF e # "" THEN "Error al guardar el producto: " \o e
                      ELSE "",
                      IF e # "" THEN ""
                      ELSE IF product_by_name(s, strip(form.name)) # None
                      THEN "Producto actualizado correctamente."
                      ELSE "Producto creado correctamente.",
                      productos_context(s, products', form, NoResults))
    /\ UNCHANGED <<users, session, sales, today, expenses, environ>>

\* POST /productos/<product_id>/delete in session s
delete_product(s, product_id) ==
    /\ IF ~LoggedIn(s)
       THEN /\ resp' = Redirect("delete_product", product_id, "login", "")
            /\ UNCHANGED products
       ELSE IF product_id \notin DOMAIN products
       THEN /\ resp' = Render("delete_product", "404 Not Found", "", None)
            /\ UNCHANGED products
       ELSE IF ~current_is_admin(s)
               /\ products[product_id].owner_id # current_user_id(s)
       THEN /\ resp' = Redirect("delete_product", product_id, "productos", "")
            /\ UNCHANGED products
       ELSE /\ products' = Delete(products, product_id)
            /\ resp' = Redirect("delete_product", product_id, "productos", "")
    /\ UNCHANGED <<users, session, sales, today, expenses, environ>>

\* the ids a request may name
ProductIds == 1 .. MaxProducts

NextCalc ==
    \/ \E s \in Sessions, u \in LoginUsernames, p \in LoginPasswords : login(s, u, p)
    \/ \E s \in Sessions : logout(s)
    \/ \E s \in Sessions, form \in CalculatorForms \cup CatalogForms :
            productos_post(s, form)
    \/ \E s \in Sessions, id \in ProductIds : delete_product(s, id)

\* the catalog: the calculator, the catalog form and the deletion of products
SpecCalc == Init /\ [][NextCalc]_vars

(***************************************************************************)
(* datetime.date on day numbers, and str as sequences of code points       *)
(***************************************************************************)
\* the year is a leap year
is_leap(y) == y % 4 = 0 /\ (y % 100 # 0 \/ y % 400 = 0)

\* the day number of 1 January of year y
RECURSIVE first_day_of_year(_)
first_day_of_year(y) ==
    IF y = 2024 THEN 1
    ELSE IF y > 2024
    THEN first_day_of_year(y - 1) + (IF is_leap(y - 1) THEN 366 ELSE 365)
    ELSE first_day_of_year(y + 1) - (IF is_leap(y) THEN 366 ELSE 365)

\* date.year, for the dates of the years 2022 to 2026
date_year(d) ==
    CHOOSE y \in 2022 .. 2026 :
        first_day_of_year(y) <= d /\ d < first_day_of_year(y + 1)

\* the day number of the first day of month m of year y; month 13 is the
\* January that follows
RECURSIVE first_day_of_month(_, _)
first_day_of_month(y, m) ==
    IF m = 1 THEN first_day_of_year(y)
    ELSE first_day_of_month(y, m - 1)
         + (IF m - 1 = 2 THEN (IF is_leap(y) THEN 29 ELSE 28)
            ELSE IF m - 1 \in {4, 6, 9, 11} THEN 30 ELSE 31)

\* date.replace(day=1)
replace_day_1(d) ==
    LET y == date_year(d)
        m == CHOOSE m \in 1 .. 12 :
                first_day_of_month(y, m) <= d /\ d < first_day_of_month(y, m + 1)
    IN first_day_of_month(y, m)

\* date.replace(month=1, day=1)
replace_month_1_day_1(d) == first_day_of_year(date_year(d))

\* the first two components of date.isocalendar(): the ISO year and week,
\* those of the Thursday of the week of d (isoweekday is 1 for Monday, which
\* 2024-01-01, day 1, is, to 7 for Sunday)
isocalendar(d) ==
    LET isoweekday == ((d - 1) % 7) + 1
        thursday == d - isoweekday + 4
        y == date_year(thursday)
    IN <<y, (thursday - first_day_of_year(y)) \div 7 + 1>>

\* str(n) for n >= 0, as the code points of its digits
RECURSIVE digits(_)
digits(n) ==
    IF n < 10 THEN <<48 + n>> ELSE digits(n \div 10) \o <<48 + (n % 10)>>

\* week_key that does not pad the week
week_key_unpadded(y, w) == digits(y) \o <<45, 87>> \o digits(w)

\* f"{y}-W{w:02d}": "-" is code point 45 and "W" is 87
week_key(y, w) ==
    digits(y) \o <<45, 87>> \o (IF w < 10 THEN <<48>> \o digits(w) ELSE digits(w))

\* a < b for two str: the order of the first code point that differs
RECURSIVE str_lt(_, _)
str_lt(a, b) ==
    IF b = <<>> THEN FALSE
    ELSE IF a = <<>> THEN TRUE
    ELSE IF Head(a) # Head(b) THEN Head(a) < Head(b)
    ELSE str_lt(Tail(a), Tail(b))

\* round(value, 2) of an amount in thousandths; a value halfway between two
\* hundredths goes to the even one
round_2(value) ==
    LET r == value % 10
        down == value - r
    IN IF r < 5 THEN down
       ELSE IF r > 5 THEN down + 10
       ELSE IF (down \div 10) % 2 = 0 THEN down ELSE down + 10

(***************************************************************************)
(* /dashboard: the metrics and charts of the filtered period               *)
(***************************************************************************)
\* items[:5] of the products chart
TOP_PRODUCTS == 5

\* the ids of ids as a sequence in the order of the rowid (a query without
\* order_by)
RECURSIVE all_rows(_)
all_rows(ids) ==
    IF ids = {} THEN <<>> ELSE <<FirstId(ids)>> \o all_rows(ids \ {FirstId(ids)})

\* order_by(Sale.date): the ids as a sequence, sales of one date by rowid
RECURSIVE order_by_date(_, _)
order_by_date(table, ids) ==
    IF ids = {} THEN <<>>
    ELSE LET first == CHOOSE i \in ids : \A j \in ids :
                        \/ table[i].date < table[j].date
                        \/ table[i].date = table[j].date /\ i <= j
         IN <<first>> \o order_by_date(table, ids \ {first})

\* d_from and d_to of the request: those of the preset, else the parsed
\* arguments
dashboard_range(args, day) ==
    IF args.preset # ""
    THEN CASE args.preset = "week" -> <<Some(day - 7), Some(day)>>
           [] args.preset = "4weeks" -> <<Some(day - 28), Some(day)>>
           [] args.preset = "month" -> <<Some(replace_day_1(day)), Some(day)>>
           [] args.preset = "year" -> <<Some(replace_month_1_day_1(day)), Some(day)>>
           [] OTHER -> <<None, None>>
    ELSE <<parse_date(args.date_from), parse_date(args.date_to)>>

\* the sales of the period, as the ids in the order of the query
dashboard_sales(s, table, args, day) ==
    LET range == dashboard_range(args, day)
    IN order_by_date(table,
          {i \in user_scope_query_Sale(s, table) :
              /\ range[1] # None => table[i].date >= range[1][1]
              /\ range[2] # None => table[i].date <= range[2][1]})

\* the keys of a defaultdict in the order of their first insertion
RECURSIVE dict_keys(_)
dict_keys(keys) ==
    IF keys = <<>> THEN <<>>
    ELSE <<Head(keys)>>
         \o dict_keys(SelectSeq(Tail(keys), LAMBDA k : k # Head(keys)))

\* the value of a defaultdict(float) under key after d[keys[i]] += values[i]
\* for every i
RECURSIVE dict_value(_, _, _)
dict_value(keys, values, key) ==
    IF keys = <<>> THEN 0
    ELSE (IF Head(keys) = key THEN Head(values) ELSE 0)
         + dict_value(Tail(keys), Tail(values), key)

\* defaultdict.items() after d[keys[i]] += values[i] for every i
dict_items(keys, values) ==
    LET ks == dict_keys(keys)
    IN [i \in DOMAIN ks |-> <<ks[i], dict_value(keys, values, ks[i])>>]

\* seq without its element k
remove_at(seq, k) == SubSeq(seq, 1, k - 1) \o SubSeq(seq, k + 1, Len(seq))

\* sorted(items, key=lambda x: x[1], reverse=True): the sort is stable
RECURSIVE sorted_by_value_desc(_)
sorted_by_value_desc(items) ==
    IF items = <<>> THEN <<>>
    ELSE LET k == CHOOSE k \in DOMAIN items :
                      /\ \A j \in DOMAIN items : items[j][2] <= items[k][2]
                      /\ \A j \in 1 .. k - 1 : items[j][2] < items[k][2]
         IN <<items[k]>> \o sorted_by_value_desc(remove_at(items, k))

\* sorted(items, key=lambda x: x[0]) of items with distinct str keys
RECURSIVE sorted_by_key(_)
sorted_by_key(items) ==
    IF items = <<>> THEN <<>>
    ELSE LET k == CHOOSE k \in DOMAIN items :
                      \A j \in DOMAIN items \ {k} : str_lt(items[k][1], items[j][1])
         IN <<items[k]>> \o sorted_by_key(remove_at(items, k))

\* float(s.profit or 0) of the rows, in their order
column_profit(table, rows) == [k \in DOMAIN rows |-> table[rows[k]].profit]

\* top_items that keeps every product
top_items_all(table, rows) ==
    sorted_by_value_desc(
        dict_items([k \in DOMAIN rows |-> table[rows[k]].product],
                   column_profit(table, rows)))

\* top_items = items[:5] of the products sorted by their profit
top_items(table, rows) ==
    LET items == sorted_by_value_desc(
                    dict_items([k \in DOMAIN rows |-> table[rows[k]].product],
                               column_profit(table, rows)))
    IN SubSeq(items, 1, IF Len(items) < TOP_PRODUCTS THEN Len(items)
                        ELSE TOP_PRODUCTS)

\* key = f"{y}-W{w:02d}" of the date of a sale
sale_week_key(sale) == week_key(isocalendar(sale.date)[1], isocalendar(sale.date)[2])

\* weeks_sorted: the profit of each ISO week, sorted by the key
weeks_sorted(table, rows) ==
    sorted_by_key(
        dict_items([k \in DOMAIN rows |-> sale_week_key(table[rows[k]])],
                   column_profit(table, rows)))

\* user_items: the profit of each user, sorted by the profit, over the rows
\* whose user (the relationship Sale.user) exists
user_items(table, rows) ==
    LET owned == SelectSeq(rows, LAMBDA i : /\ table[i].user_id # None
                                            /\ table[i].user_id[1] \in DOMAIN users)
    IN sorted_by_value_desc(
          dict_items([k \in DOMAIN owned |-> users[table[owned[k]].user_id[1]].username],
                     column_profit(table, owned)))

\* x / n if n > 0 else 0.0, as the fraction <<numerator, denominator>>
average(x, n) == IF n > 0 THEN <<x, n>> ELSE <<0, 1>>

(***************************************************************************)
(* /dashboard: the alerts                                                  *)
(***************************************************************************)
\* timedelta(days=2): how far ahead a due date counts as upcoming
UPCOMING_DAYS == 2

\* timedelta(days=7): how far back the weekly profit looks
WEEK_DAYS == 7

\* user_scope_query(Sale).filter(Sale.status == "Pendiente")
pending_sales(s, table) ==
    {i \in user_scope_query_Sale(s, table) : table[i].status = "Pendiente"}

\* d = s.payment_due_date or s.date
alert_date(sale) ==
    IF sale.payment_due_date # None THEN sale.payment_due_date[1] ELSE sale.date

\* old_pending with <= for <: a sale due today is overdue
old_pending_le(s, table, day) ==
    {i \in pending_sales(s, table) : alert_date(table[i]) <= day}

\* old_pending: the pending sales with d < today
old_pending(s, table, day) ==
    {i \in pending_sales(s, table) : alert_date(table[i]) < day}

\* upcoming_pending: the other pending sales with d <= today + timedelta(days=2)
upcoming_pending(s, table, day) ==
    {i \in pending_sales(s, table) \ old_pending(s, table, day) :
        alert_date(table[i]) <= day + UPCOMING_DAYS}

\* an entry of alerts; message holds the numbers the text is made of
Alert(level, title, message) ==
    [level |-> level, title |-> title, message |-> message]

\* payment_alerts that warns of upcoming payments whatever is overdue
payment_alerts_both(s, table, day) ==
    LET old == old_pending(s, table, day)
        upcoming == upcoming_pending(s, table, day)
    IN (IF old # {}
        THEN <<Alert("danger", "Pagos vencidos",
                     <<Cardinality(old), sum_total(table, all_rows(old))>>)>>
        ELSE <<>>)
       \o
       (IF upcoming # {}
        THEN <<Alert("warning", "Pagos próximos a vencer",
                     <<Cardinality(upcoming), sum_total(table, all_rows(upcoming))>>)>>
        ELSE <<>>)

\* the alerts on pending payments: "if old_pending:" and
\* "if upcoming_pending and not old_pending:"
payment_alerts(s, table, day) ==
    LET old == old_pending(s, table, day)
        upcoming == upcoming_pending(s, table, day)
    IN (IF old # {}
        THEN <<Alert("danger", "Pagos vencidos",
                     <<Cardinality(old), sum_total(table, all_rows(old))>>)>>
        ELSE <<>>)
       \o
       (IF upcoming # {} /\ old = {}
        THEN <<Alert("warning", "Pagos próximos a vencer",
                     <<Cardinality(upcoming), sum_total(table, all_rows(upcoming))>>)>>
        ELSE <<>>)

\* weekly_sales that leaves out the sales of seven_days_ago itself
weekly_sales_open(s, table, day) ==
    {i \in user_scope_query_Sale(s, table) :
        table[i].date > day - WEEK_DAYS /\ table[i].date <= day}

\* weekly_sales: Sale.date >= seven_days_ago, Sale.date <= today
weekly_sales(s, table, day) ==
    {i \in user_scope_query_Sale(s, table) :
        table[i].date >= day - WEEK_DAYS /\ table[i].date <= day}

\* weekly_profit = sum(float(s.profit or 0) for s in weekly_sales)
weekly_profit(s, table, day) ==
    sum_profit(table, all_rows(weekly_sales(s, table, day)))

\* min_weekly_profit: float(ALERT_WEEKLY_PROFIT_MIN), 0.0 when the variable is
\* unset, empty or no numeral
min_weekly_profit(env) ==
    LET str == IF env.ALERT_WEEKLY_PROFIT_MIN = None THEN ""
               ELSE strip(env.ALERT_WEEKLY_PROFIT_MIN[1])
    IN IF str = "" THEN 0
       ELSE IF IsNumeral(str) THEN to_float(str)
       ELSE 0

\* the alert on the weekly profit
weekly_alerts(s, table, day, env) ==
    IF min_weekly_profit(env) > 0
       /\ weekly_profit(s, table, day) < min_weekly_profit(env)
    THEN <<Alert("danger", "Utilidad semanal por debajo del objetivo",
                 <<weekly_profit(s, table, day), min_weekly_profit(env)>>)>>
    ELSE <<>>

(***************************************************************************)
(* /dashboard: the handler                                                 *)
(***************************************************************************)
\* the template context of dashboard.html; date_from and date_to are the
\* dates the period is cut at
dashboard_context(s, table, args, day, env) ==
    LET rows == dashboard_sales(s, table, args, day)
        top == top_items(table, rows)
        weeks == weeks_sorted(table, rows)
        by_user == user_items(table, rows)
        total_ganancia == sum_profit(table, rows)
        total_monto_period == sum_total(table, rows)
        num_dias == Cardinality({table[rows[k]].date : k \in DOMAIN rows})
    IN [top_labels |-> [k \in DOMAIN top |-> top[k][1]],
        top_values |-> [k \in DOMAIN top |-> round_2(top[k][2])],
        week_labels |-> [k \in DOMAIN weeks |-> weeks[k][1]],
        week_values |-> [k \in DOMAIN weeks |-> round_2(weeks[k][2])],
        user_labels |-> [k \in DOMAIN by_user |-> by_user[k][1]],
        user_values |-> [k \in DOMAIN by_user |-> round_2(by_user[k][2])],
        total_ganancia |-> total_ganancia,
        date_from |-> dashboard_range(args, day)[1],
        date_to |-> dashboard_range(args, day)[2],
        total_ventas_period |-> Len(rows),
        total_monto_period |-> total_monto_period,
        avg_ticket |-> average(total_monto_period, Len(rows)),
        avg_profit_per_sale |-> average(total_ganancia, Len(rows)),
        avg_daily_profit |-> average(total_ganancia, num_dias),
        alerts |-> payment_alerts(s, table, day)
                   \o weekly_alerts(s, table, day, env),
        weekly_profit |-> weekly_profit(s, table, day),
        min_weekly_profit |-> min_weekly_profit(env)]

\* GET /dashboard in session s
dashboard(s, args) ==
    /\ IF ~LoggedIn(s)
       THEN resp' = Redirect("dashboard", 0, "login", "")
       ELSE resp' = Render("dashboard", "", "",
                           dashboard_context(s, sales, args, today, environ))
    /\ UNCHANGED <<users, session, sales, products, today, expenses, environ>>

\* the session of user id once logged in
SessionOf(id) ==
    [user_id |-> Some(id), user |-> Some(InitUsers[id].username),
     is_admin |-> InitUsers[id].is_admin]

(***************************************************************************)
(* The payment alerts: pending sales with due dates around today           *)
(***************************************************************************)
\* sale forms with a status and a due date
AlertForms ==
    [date : {""},
     name : {" Ana "},
     product_select : {""},
     product : {"Pan"},
     status : {"Pagado", "Pendiente"},
     cost_per_unit : {"2"},
     price_per_unit : {"3"},
     quantity : {"2"},
     comment : {""},
     payment_due_date : {"", "2024-01-03", "2024-01-05", "2024-01-09"}]

\* request.args of /dashboard; an absent argument reads as ""
DashboardArgs ==
    {[date_from |-> "", date_to |-> "", preset |-> ""],
     [date_from |-> "2024-01-05", date_to |-> "", preset |-> ""],
     [date_from |-> "", date_to |-> "", preset |-> "week"]}

\* user 2 is logged in on some day, with an empty ledger
InitAlerts ==
    /\ users = InitUsers
    /\ session = [s \in Sessions |-> SessionOf(2)]
    /\ sales = EmptyTable
    /\ products = EmptyTable
    /\ expenses = EmptyTable
    /\ environ = NoEnviron
    /\ today \in {4, 6, 7, 9, 10}
    /\ resp = Render("start", "", "", None)

NextAlerts ==
    \/ \E s \in Sessions, form \in AlertForms : ventas_post(s, form)
    \/ \E s \in Sessions, id \in SaleIds : mark_sale_paid(s, id)
    \/ \E s \in Sessions, id \in SaleIds : delete_sale(s, id)
    \/ \E s \in Sessions, args \in DashboardArgs : dashboard(s, args)

\* the ledger of one user and the dashboard with its payment alerts
SpecAlerts == InitAlerts /\ [][NextAlerts]_vars

(***************************************************************************)
(* The weekly-profit alert: sales dated around the week, with and without  *)
(* a floor in the environment                                              *)
(***************************************************************************)
\* forms of paid sales with a profit of 2 each, dated today and on fixed days
WeeklyForms ==
    [date : {"", "2024-01-03", "2024-01-09"},
     name : {" Ana "},
     product_select : {""},
     product : {"Pan"},
     status : {""},
     cost_per_unit : {"2"},
     price_per_unit : {"3"},
     quantity : {"2"},
     comment : {""},
     payment_due_date : {""}]

\* user 2 is logged in on some day, with an empty ledger and
\* ALERT_WEEKLY_PROFIT_MIN unset, zero, no number or 3
InitWeekly ==
    /\ users = InitUsers
    /\ session = [s \in Sessions |-> SessionOf(2)]
    /\ sales = EmptyTable
    /\ products = EmptyTable
    /\ expenses = EmptyTable
    /\ environ \in [ALERT_WEEKLY_PROFIT_MIN :
                        {None, Some("0"), Some("abc"), Some("3")}]
    /\ today \in {5, 10, 11}
    /\ resp = Render("start", "", "", None)

NextWeekly ==
    \/ \E s \in Sessions, form \in WeeklyForms : ventas_post(s, form)
    \/ \E s \in Sessions, id \in SaleIds : delete_sale(s, id)
    \/ \E s \in Sessions, args \in DashboardArgs : dashboard(s, args)

\* the ledger of one user and the dashboard with its weekly-profit alert
SpecWeekly == InitWeekly /\ [][NextWeekly]_vars

(***************************************************************************)
(* The products chart: ledgers of up to MaxTopSales sales of the           *)
(* administrator, of more products than the chart shows                    *)
(***************************************************************************)
\* the form of sale k under choice c: of its own product or of "P1", and two
\* units at 3.004 (a profit of 2.008) or one unit at 1 (a loss of 1)
top_form(k, c) ==
    [date |-> "", name |-> " Ana ", product_select |-> "",
     product |-> IF ~c.own THEN "P1"
                 ELSE CASE k = 1 -> "P1" [] k = 2 -> "P2" [] k = 3 -> "P3"
                        [] k = 4 -> "P4" [] k = 5 -> "P5" [] k = 6 -> "P6"
                        [] k = 7 -> "P7" [] OTHER -> "P8",
     status |-> "", cost_per_unit |-> "2",
     price_per_unit |-> IF c.gain THEN "3.004" ELSE "1",
     quantity |-> IF c.gain THEN "2" ELSE "1",
     comment |-> "", payment_due_date |-> ""]

\* the administrator is logged in and has stored n sales today
InitTop ==
    /\ users = InitUsers
    /\ session = [s \in Sessions |-> SessionOf(1)]
    /\ \E n \in 0 .. MaxTopSales : \E c \in [1 .. n -> [own : BOOLEAN, gain : BOOLEAN]] :
          sales = [k \in 1 .. n |-> new_sale(top_form(k, c[k]), Some(1), 5)]
    /\ products = EmptyTable
    /\ expenses = EmptyTable
    /\ environ = NoEnviron
    /\ today = 5
    /\ resp = Render("start", "", "", None)

NextTop == \E s \in Sessions, args \in DashboardArgs : dashboard(s, args)

\* the dashboard over the ledgers of the products chart
SpecTop == InitTop /\ [][NextTop]_vars

(***************************************************************************)
(* The weeks chart: ledgers of up to MaxWeekSales sales of the             *)
(* administrator, dated in several ISO weeks of three ISO years            *)
(***************************************************************************)
\* forms of paid sales of one unit, at a profit of 1.004 or 1
WeekForms ==
    [date : {"", "2023-12-31", "2024-01-03", "2024-01-09", "2024-03-11",
             "2024-12-30"},
     name : {" Ana "},
     product_select : {""},
     product : {"Pan"},
     status : {""},
     cost_per_unit : {"2"},
     price_per_unit : {"3", "3.004"},
     quantity : {""},
     comment : {""},
     payment_due_date : {""}]

\* the administrator is logged in and has stored n sales today
InitWeeks ==
    /\ users = InitUsers
    /\ session = [s \in Sessions |-> SessionOf(1)]
    /\ \E n \in 0 .. MaxWeekSales : \E f \in [1 .. n -> WeekForms] :
          sales = [k \in 1 .. n |-> new_sale(f[k], Some(1), 5)]
    /\ products = EmptyTable
    /\ expenses = EmptyTable
    /\ environ = NoEnviron
    /\ today = 5
    /\ resp = Render("start", "", "", None)

NextWeeks == \E s \in Sessions, args \in DashboardArgs : dashboard(s, args)

\* the dashboard over the ledgers of the weeks chart
SpecWeeks == InitWeeks /\ [][NextWeeks]_vars

(***************************************************************************)
(* /flujo: the registration of an expense                                  *)
(***************************************************************************)
\* ids of the rows that user_scope_query(Expense) returns
user_scope_query_Expense(s, table) ==
    IF ~LoggedIn(s) THEN DOMAIN table
    ELSE IF current_is_admin(s) THEN DOMAIN table
    ELSE {i \in DOMAIN table : table[i].owner_id = current_user_id(s)}

\* request.form of the expense form; an absent field reads as "": forms
\* whose description and amount pass the checks, and forms with one field
\* that fails a check or a conversion
FlujoForms ==
    LET f == [date |-> "", description |-> " Luz ", category |-> "Gasto",
              amount |-> "20"]
    IN {[f EXCEPT !.category = c[1], !.amount = c[2]] :
            c \in {<<"", "20">>, <<"Gasto", "5">>, <<"Reinversión", "5">>,
                   <<"Otro", "5">>}}
       \cup
       {[f EXCEPT !.description = ""], [f EXCEPT !.description = " "],
        [f EXCEPT !.amount = ""], [f EXCEPT !.amount = "0"],
        [f EXCEPT !.amount = "-1"], [f EXCEPT !.amount = "abc"]}

\* category = request.form.get("category") or "Gasto"
form_category(form) == IF form.category = "" THEN "Gasto" ELSE form.category

\* the ValueError the checks of the expense form raise, "" when none does
flujo_validation_error(description, amount) ==
    IF description = "" THEN "La descripción es obligatoria."
    ELSE IF amount <= 0 THEN "El monto debe ser mayor que cero."
    ELSE ""

\* the exception the try block of the POST raises on form, "" when it commits
flujo_error(form) ==
    IF ~IsNumeral(OrDefault(form.amount, "0"))
    THEN "could not convert string to float"
    ELSE flujo_validation_error(strip(form.description),
                                to_float(OrDefault(form.amount, "0")))

\* Expense(...) as the POST builds it from a form that raises nothing
new_expense(form, uid, day) ==
    [date |-> IF parse_date(form.date) = None THEN day
              ELSE parse_date(form.date)[1],
     description |-> strip(form.description),
     category |-> form_category(form),
     amount |-> to_float(OrDefault(form.amount, "0")),
     owner_id |-> uid]

\* the expense table after the POST part of flujo()
flujo_post_expenses(s, form) ==
    IF flujo_error(form) # "" THEN expenses
    ELSE Insert(expenses, NextId(expenses),
                new_expense(form, current_user_id(s), today))

(***************************************************************************)
(* /flujo: the cash flow of the period                                     *)
(***************************************************************************)
\* request.args of /flujo; an absent argument reads as ""
FlujoArgs ==
    [date_from : {"", "2024-01-05"}, date_to : {""},
     category_filter : {"", "Gasto"}]

\* the form of the page posts to /flujo without a query string
NoFlujoArgs == [date_from |-> "", date_to |-> "", category_filter |-> ""]

\* the ids of the expenses of the period and category
flujo_exp_query(s, table, args) ==
    LET d_from == parse_date(args.date_from)
        d_to == parse_date(args.date_to)
    IN {i \in user_scope_query_Expense(s, table) :
          /\ d_from # None => table[i].date >= d_from[1]
          /\ d_to # None => table[i].date <= d_to[1]
          /\ args.category_filter # "" => table[i].category = args.category_filter}

\* the ids of the sales of the period
flujo_sales_query(s, table, args) ==
    LET d_from == parse_date(args.date_from)
        d_to == parse_date(args.date_to)
    IN {i \in user_scope_query_Sale(s, table) :
          /\ d_from # None => table[i].date >= d_from[1]
          /\ d_to # None => table[i].date <= d_to[1]}

\* sum(float(e.amount or 0) for e in rows)
RECURSIVE sum_amount(_, _)
sum_amount(table, rows) ==
    IF rows = <<>> THEN 0
    ELSE table[Head(rows)].amount + sum_amount(table, Tail(rows))

\* total_gastos that counts the expenses of every category
total_gastos_all(table, rows) == sum_amount(table, rows)

\* total_gastos: the amounts of the listed expenses with category "Gasto"
total_gastos(table, rows) ==
    sum_amount(table, SelectSeq(rows, LAMBDA i : table[i].category = "Gasto"))

\* total_reinv: the amounts of the listed expenses with category "Reinversión"
total_reinv(table, rows) ==
    sum_amount(table, SelectSeq(rows, LAMBDA i : table[i].category = "Reinversión"))

\* max(x, 0.0)
max_0(x) == IF x > 0 THEN x ELSE 0

\* ahorro_objetivo = total_ganancia * 0.10, in hundredths of the thousandths
\* total_ganancia is in
ahorro_objetivo(total_ganancia) == total_ganancia * 10

\* ahorro_real = max(neto, 0.0), in the unit of ahorro_objetivo
ahorro_real(neto) == max_0(neto) * 100

\* meta_cumplida that does not ask for a profit
meta_cumplida_any(total_ganancia, real, objetivo) == real >= objetivo

\* meta_cumplida = (total_ganancia > 0) and (ahorro_real >= ahorro_objetivo)
meta_cumplida(total_ganancia, real, objetivo) ==
    total_ganancia > 0 /\ real >= objetivo

\* the template context of flujo.html
flujo_context(s, sale_table, expense_table, args) ==
    LET rows == order_by_date_desc_id_desc(expense_table,
                    flujo_exp_query(s, expense_table, args))
        sold == all_rows(flujo_sales_query(s, sale_table, args))
        total_ganancia == sum_profit(sale_table, sold)
        gastos == total_gastos(expense_table, rows)
        reinv == total_reinv(expense_table, rows)
        neto == total_ganancia - (gastos + reinv)
        objetivo == ahorro_objetivo(total_ganancia)
        real == ahorro_real(neto)
    IN [expenses |-> rows,
        date_from |-> args.date_from,
        date_to |-> args.date_to,
        category_filter |-> args.category_filter,
        total_ingresos |-> sum_total(sale_table, sold),
        total_ganancia |-> total_ganancia,
        total_gastos |-> gastos,
        total_reinv |-> reinv,
        total_egresos |-> gastos + reinv,
        neto |-> neto,
        ahorro_objetivo |-> objetivo,
        ahorro_real |-> real,
        ahorro_faltante |-> max_0(objetivo - real),
        meta_cumplida |-> meta_cumplida(total_ganancia, real, objetivo)]

\* POST /flujo in session s: an expense is registered, or the error is shown;
\* then the cash flow is rendered
flujo_post(s, form) ==
    /\ IF ~LoggedIn(s)
       THEN /\ resp' = Redirect("flujo", 0, "login", "")
            /\ UNCHANGED expenses
       ELSE LET e == flujo_error(form)
            IN /\ e = "" => Cardinality(DOMAIN expenses) < MaxExpenses
               /\ expenses' = flujo_post_expenses(s, form)
               /\ resp' = Render("flujo_post",
                      IF e # "" THEN "Error al registrar movimiento: " \o e ELSE "",
                      IF e # "" THEN "" ELSE "Movimiento registrado correctamente.",
                      flujo_context(s, sales, expenses', NoFlujoArgs))
    /\ UNCHANGED <<users, session, sales, products, today, environ>>

\* GET /flujo in session s: the cash flow is rendered
flujo_get(s, args) ==
    /\ IF ~LoggedIn(s)
       THEN resp' = Redirect("flujo", 0, "login", "")
       ELSE resp' = Render("flujo_get", "", "",
                           flujo_context(s, sales, expenses, args))
    /\ UNCHANGED <<users, session, sales, products, today, expenses, environ>>

\* POST /flujo/<expense_id>/delete in session s
delete_expense(s, expense_id) ==
    /\ IF ~LoggedIn(s)
       THEN /\ resp' = Redirect("delete_expense", expense_id, "login", "")
            /\ UNCHANGED expenses
       ELSE IF expense_id \notin DOMAIN expenses
       THEN /\ resp' = Render("delete_expense", "404 Not Found", "", None)
            /\ UNCHANGED expenses
       ELSE IF ~current_is_admin(s)
               /\ expenses[expense_id].owner_id # current_user_id(s)
       THEN /\ resp' = Redirect("delete_expense", expense_id, "flujo", "")
            /\ UNCHANGED expenses
       ELSE /\ expenses' = Delete(expenses, expense_id)
            /\ resp' = Redirect("delete_expense", expense_id, "flujo", "")
    /\ UNCHANGED <<users, session, sales, products, today, environ>>

(***************************************************************************)
(* The cash flow: a ledger of up to MaxFlujoSales sales of user 2, who     *)
(* registers and deletes expenses                                          *)
(***************************************************************************)
\* the form of sale k of the ledger: profits of 50, -10 and 30, one sale
\* dated before the others, then profits of 1
flujo_sale_form(k) ==
    [date |-> IF k = 1 THEN "2024-01-03" ELSE "",
     name |-> " Ana ", product_select |-> "", product |-> "Pan",
     status |-> "",
     cost_per_unit |-> CASE k = 1 -> "10" [] k = 2 -> "20" [] k = 3 -> "20"
                         [] OTHER -> "2",
     price_per_unit |-> CASE k = 1 -> "60" [] k = 2 -> "10" [] k = 3 -> "50"
                          [] OTHER -> "3",
     quantity |-> "", comment |-> "", payment_due_date |-> ""]

\* the sales of the forms picked, stored in their order
RECURSIVE flujo_ledger(_, _)
flujo_ledger(picked, uid) ==
    IF picked = {} THEN EmptyTable
    ELSE LET k == MaxId(picked)
             table == flujo_ledger(picked \ {k}, uid)
         IN Insert(table, NextId(table), new_sale(flujo_sale_form(k), uid, 5))

\* user 2 is logged in and has stored some sales
InitFlujo ==
    /\ users = InitUsers
    /\ session = [s \in Sessions |-> SessionOf(2)]
    /\ \E picked \in SUBSET (1 .. MaxFlujoSales) :
          sales = flujo_ledger(picked, Some(2))
    /\ products = EmptyTable
    /\ expenses = EmptyTable
    /\ environ = NoEnviron
    /\ today = 5
    /\ resp = Render("start", "", "", None)

NextFlujo ==
    \/ \E s \in Sessions, form \in FlujoForms : flujo_post(s, form)
    \/ \E s \in Sessions, args \in FlujoArgs : flujo_get(s, args)
    \/ \E s \in Sessions, id \in 1 .. MaxExpenses : delete_expense(s, id)

\* the expenses of one user and the cash flow over a ledger
SpecFlujo == InitFlujo /\ [][NextFlujo]_vars

(***************************************************************************)
(* /usuarios and /usuarios/<user_id>/delete                                *)
(***************************************************************************)
\* request.form of the user form; an unticked is_admin box is absent ("")
UserForms ==
    {[username |-> "", password |-> "ana-pw", is_admin |-> ""],
     [username |-> " ana ", password |-> "ana-pw", is_admin |-> ""],
     [username |-> "zoe", password |-> "", is_admin |-> "on"],
     [username |-> "zoe", password |-> "ana-pw", is_admin |-> "on"]}

\* form_error of the POST branch of usuarios(), "" for None
usuarios_error(username, password) ==
    IF username = "" \/ password = ""
    THEN "Usuario y contraseña son obligatorios."
    ELSE IF UserByName(username) # None
    THEN "Ya existe un usuario con ese nombre."
    ELSE ""

\* User(username=..., password_hash=generate_password_hash(password),
\*      is_admin=bool(request.form.get("is_admin")))
new_user(form) ==
    [username |-> strip(form.username), password |-> form.password,
     is_admin |-> form.is_admin # ""]

\* the user table after the POST branch of usuarios()
usuarios_post_users(form) ==
    IF usuarios_error(strip(form.username), form.password) # "" THEN users
    ELSE Insert(users, NextId(users), new_user(form))

\* POST /usuarios; the page lists the users of the table after the request
usuarios_post(s, form) ==
    /\ IF ~LoggedIn(s)
       THEN /\ resp' = Redirect("usuarios", 0, "login", "")
            /\ UNCHANGED users
       ELSE IF ~current_is_admin(s)
       THEN /\ resp' = Redirect("usuarios", 0, "ventas", "")
            /\ UNCHANGED users
       ELSE LET error == usuarios_error(strip(form.username), form.password)
            IN /\ users' = usuarios_post_users(form)
               /\ resp' = Render("usuarios_post", error,
                                 IF error = "" THEN "Usuario creado correctamente."
                                 ELSE "",
                                 Some(DOMAIN users'))
    /\ UNCHANGED <<session, sales, products, today, expenses, environ>>

\* GET /usuarios without messages in the URL
usuarios_get(s) ==
    /\ IF ~LoggedIn(s)
       THEN resp' = Redirect("usuarios", 0, "login", "")
       ELSE IF ~current_is_admin(s)
       THEN resp' = Redirect("usuarios", 0, "ventas", "")
       ELSE resp' = Render("usuarios_get", "", "", Some(DOMAIN users))
    /\ UNCHANGED <<users, session, sales, products, today, expenses, environ>>

\* db.session.delete(user): the rows that reference the user through a
\* relationship without a delete cascade (Sale.user, Product.owner,
\* Expense.owner) get a NULL in their foreign key
delete_user(s, user_id) ==
    /\ IF ~LoggedIn(s)
       THEN /\ resp' = Redirect("delete_user", user_id, "login", "")
            /\ UNCHANGED <<users, sales, products, expenses>>
       ELSE IF ~current_is_admin(s)
       THEN /\ resp' = Redirect("delete_user", user_id, "ventas", "")
            /\ UNCHANGED <<users, sales, products, expenses>>
       ELSE IF user_id \notin DOMAIN users
       THEN /\ resp' = Render("delete_user", "404 Not Found", "", None)
            /\ UNCHANGED <<users, sales, products, expenses>>
       ELSE IF Some(user_id) = current_user_id(s)
       THEN /\ resp' = [Redirect("delete_user", user_id, "usuarios", "")
                          EXCEPT !.error = "No puedes eliminar tu propio usuario "
                                           \o "mientras estás conectado."]
            /\ UNCHANGED <<users, sales, products, expenses>>
       ELSE /\ users' = Delete(users, user_id)
            /\ sales' = [i \in DOMAIN sales |->
                           IF sales[i].user_id = Some(user_id)
                           THEN [sales[i] EXCEPT !.user_id = None] ELSE sales[i]]
            /\ products' = [i \in DOMAIN products |->
                              IF products[i].owner_id = Some(user_id)
                              THEN [products[i] EXCEPT !.owner_id = None]
                              ELSE products[i]]
            /\ expenses' = [i \in DOMAIN expenses |->
                              IF expenses[i].owner_id = Some(user_id)
                              THEN [expenses[i] EXCEPT !.owner_id = None]
                              ELSE expenses[i]]
            /\ resp' = Redirect("delete_user", user_id, "usuarios",
                                "Usuario eliminado correctamente.")
    /\ UNCHANGED <<session, today, environ>>

(***************************************************************************)
(* The accounts: MaxSessions browsers that log in and out while the        *)
(* administrators create and delete users; user 2 has one sale             *)
(***************************************************************************)
\* the browsers with a session of their own
UserSessions == 1 .. MaxSessions

InitUsuarios ==
    /\ users = InitUsers
    /\ session = [s \in UserSessions |-> ClearedSession]
    /\ sales = flujo_ledger({1}, Some(2))
    /\ products = EmptyTable
    /\ expenses = EmptyTable
    /\ environ = NoEnviron
    /\ today = 5
    /\ resp = Render("start", "", "", None)

NextUsuarios ==
    \/ \E s \in UserSessions, u \in LoginUsernames, p \in LoginPasswords :
          login(s, u, p)
    \/ \E s \in UserSessions : logout(s)
    \/ \E s \in UserSessions, form \in UserForms :
          NextId(users) <= MaxUserId /\ usuarios_post(s, form)
    \/ \E s \in UserSessions : usuarios_get(s)
    \/ \E s \in UserSessions, id \in DOMAIN users \cup {NextId(users)} :
          delete_user(s, id)

\* logins, logouts, creations and deletions of users from several sessions
SpecUsuarios == InitUsuarios /\ [][NextUsuarios]_vars

(***************************************************************************)
(* The claims about the sales ledger, checked under Spec                   *)
(***************************************************************************)
\* the latest request was a mark-paid that the handler carried out
MarkedPaid ==
    /\ resp.op = "mark_sale_paid"
    /\ resp.success = "Venta marcada como pagada."

\* the latest request was a POST /ventas that stored a sale
SaleSaved ==
    /\ resp.op = "ventas_post"
    /\ resp.success = "Venta guardada correctamente."

\* the latest request was a listing of /ventas
Listed == resp.op \in {"ventas_get", "ventas_post"}

\* C1: every stored sale has total = price_per_unit * quantity and
\* profit = (price_per_unit - cost_per_unit) * quantity
C1_TotalAndProfit ==
    \A i \in DOMAIN sales :
        /\ sales[i].total = sales[i].price_per_unit * sales[i].quantity
        /\ sales[i].profit =
             (sales[i].price_per_unit - sales[i].cost_per_unit) * sales[i].quantity

\* a sale of two units at a price above its cost has just been marked paid,
\* next to a sale created by another request
C1_Witness ==
    /\ MarkedPaid
    /\ resp.id \in DOMAIN sales
    /\ sales[resp.id].quantity = 2
    /\ sales[resp.id].cost_per_unit = 2000
    /\ sales[resp.id].profit = 2000
    /\ Cardinality(DOMAIN sales) = 2

\* C2: every stored sale whose status is Pagado has no due date
C2_PaidHasNoDueDate ==
    \A i \in DOMAIN sales :
        sales[i].status = "Pagado" => sales[i].payment_due_date = None

\* a sale was marked paid and is stored as Pagado without a due date, while a
\* pending sale keeps its own
C2_Witness ==
    /\ MarkedPaid
    /\ resp.id \in DOMAIN sales
    /\ sales[resp.id].status = "Pagado"
    /\ sales[resp.id].payment_due_date = None
    /\ \E j \in DOMAIN sales : /\ sales[j].status = "Pendiente"
                               /\ sales[j].payment_due_date = Some(9)

\* C3: the status of every stored sale is Pagado or Pendiente
C3_StatusIsPaidOrPending ==
    \A i \in DOMAIN sales : sales[i].status \in {"Pagado", "Pendiente"}

\* C4: no step takes the status of a sale from Pagado to Pendiente
C4_PaidNeverPendingAgain ==
    [][\A i \in DOMAIN sales \cap DOMAIN sales' :
          sales[i].status = "Pagado" => sales'[i].status # "Pendiente"]_vars

\* a paid sale has gone through a mark-paid request on itself
C4_Witness ==
    /\ MarkedPaid
    /\ resp.id \in DOMAIN sales
    /\ sales[resp.id].status = "Pagado"
    /\ \E j \in DOMAIN sales \ {resp.id} : sales[j].status = "Pagado"

\* the fields mark-paid leaves alone
KeptByMarkPaid(before, after) ==
    /\ after.date = before.date
    /\ after.name = before.name
    /\ after.product = before.product
    /\ after.cost_per_unit = before.cost_per_unit
    /\ after.price_per_unit = before.price_per_unit
    /\ after.quantity = before.quantity
    /\ after.total = before.total
    /\ after.profit = before.profit
    /\ after.user_id = before.user_id

\* C5: a mark-paid request of the administrator or of the owner of the sale
\* leaves the sale Pagado without a due date, keeps its other fields and the
\* other sales, and changes nothing when the sale was Pagado already
C5_MarkPaid ==
    [][\A s \in Sessions, id \in SaleIds :
          (/\ resp'.op = "mark_sale_paid"
           /\ LoggedIn(s)
           /\ id \in DOMAIN sales
           /\ current_is_admin(s) \/ sales[id].user_id = current_user_id(s)
           /\ mark_sale_paid(s, id))
          => /\ DOMAIN sales' = DOMAIN sales
             /\ sales'[id].status = "Pagado"
             /\ sales'[id].payment_due_date = None
             /\ KeptByMarkPaid(sales[id], sales'[id])
             /\ \A j \in DOMAIN sales \ {id} : sales'[j] = sales[j]
             /\ sales[id].status = "Pagado" => sales' = sales]_vars

\* a sale has been marked paid while another sale is still pending
C5_Witness ==
    /\ MarkedPaid
    /\ resp.id \in DOMAIN sales
    /\ sales[resp.id].status = "Pagado"
    /\ sales[resp.id].payment_due_date = None
    /\ \E j \in DOMAIN sales \ {resp.id} : sales[j].status = "Pendiente"

\* the form names no client, names no product, or asks for no unit
InvalidSaleForm(form) ==
    \/ strip(form.name) = ""
    \/ strip(form.product) = "" /\ strip(form.product_select) = ""
    \/ /\ IsIntNumeral(form.quantity)
       /\ ToNumber(form.quantity) <= 0

\* C6: a POST /ventas with an empty client name, an empty product or a
\* quantity <= 0 shows an error and leaves the sale table as it was (a step
\* that does not do so is the POST of no such form)
C6_CreateSaleRejects ==
    [][resp'.op = "ventas_post" =>
          \/ /\ resp'.error # ""
             /\ resp'.success = ""
             /\ sales' = sales
          \/ \A s \in Sessions, form \in VentasForms :
                (LoggedIn(s) /\ InvalidSaleForm(form)) => ~ventas_post(s, form)]_vars

\* a sale form was rejected for its quantity while the table holds a sale
C6_Witness ==
    /\ resp.op = "ventas_post"
    /\ resp.error = "Error al guardar la venta: La cantidad debe ser mayor que cero."
    /\ sales # EmptyTable

\* C7: every stored sale has quantity > 0
C7_QuantityPositive == \A i \in DOMAIN sales : sales[i].quantity > 0

\* sales of one unit (the default) and of two units are stored, and the latest
\* form was rejected for its quantity
C7_Witness ==
    /\ resp.op = "ventas_post"
    /\ resp.error = "Error al guardar la venta: La cantidad debe ser mayor que cero."
    /\ \E i, j \in DOMAIN sales : sales[i].quantity = 1 /\ sales[j].quantity = 2

\* the rows of rows that are not Pagado
NotPaid(table, rows) == SelectSeq(rows, LAMBDA i : table[i].status # "Pagado")

\* C8: a sale whose status is Pagado adds nothing to the pending total: alone
\* it has a pending total of 0, and the pending total a listing reports is the
\* pending total of its sales that are not Pagado
C8_PaidAddsNoPending ==
    /\ \A i \in DOMAIN sales :
          sales[i].status = "Pagado" => total_pendiente(sales, <<i>>) = 0
    /\ Listed =>
          resp.ctx.total_pendiente =
             total_pendiente(sales, NotPaid(sales, resp.ctx.ids))

\* a sale has just been created and listed, and a sale created as Pagado
\* stands in the listing with a pending sale: the pending total is that of the
\* pending sale
C8_Witness ==
    /\ SaleSaved
    /\ Cardinality(DOMAIN sales) = 2
    /\ \A i \in DOMAIN sales : sales[i].total = 6000 /\ i \in
          {resp.ctx.ids[k] : k \in DOMAIN resp.ctx.ids}
    /\ \E i, j \in DOMAIN sales : /\ sales[i].status = "Pagado"
                                  /\ sales[j].status = "Pendiente"
    /\ resp.ctx.total_pendiente = 6000
    /\ resp.ctx.total_pagado = 6000

\* C20: every stored sale whose status is Pendiente has a due date
C20_PendingHasDueDate ==
    \A i \in DOMAIN sales :
        sales[i].status = "Pendiente" => sales[i].payment_due_date # None

\* a pending sale without a due date was rejected, while a pending sale is
\* stored with its due date next to a sale that was marked paid
C20_Witness ==
    /\ resp.op = "ventas_post"
    /\ resp.error = "Error al guardar la venta: "
                     \o "Debes indicar una fecha de pago para las ventas pendientes."
    /\ \E i, j \in DOMAIN sales :
          /\ sales[i].status = "Pendiente"
          /\ sales[i].payment_due_date = Some(9)
          /\ sales[j].status = "Pagado"

\* C21: a delete or mark-paid request of a logged-in caller who is no
\* administrator, on a stored sale recorded for another user, leaves the sale
\* table unchanged; the same request of an administrator deletes the sale,
\* respectively leaves it with the status Pagado, whoever it is recorded for
C21_OnlyOwnSalesUnlessAdmin ==
    [][\A s \in Sessions :
          (/\ resp'.op \in {"delete_sale", "mark_sale_paid"}
           /\ LoggedIn(s)
           /\ resp'.id \in DOMAIN sales) =>
             IF current_is_admin(s)
             THEN IF resp'.op = "delete_sale"
                  THEN /\ resp'.id \notin DOMAIN sales'
                       /\ \A i \in DOMAIN sales \ {resp'.id} :
                             i \in DOMAIN sales' /\ sales'[i] = sales[i]
                  ELSE /\ DOMAIN sales' = DOMAIN sales
                       /\ sales'[resp'.id].status = "Pagado"
                       /\ \A i \in DOMAIN sales \ {resp'.id} : sales'[i] = sales[i]
             ELSE sales[resp'.id].user_id # current_user_id(s) => sales' = sales
      ]_vars

\* the plain user was refused on a pending sale of the administrator, which is
\* still stored and still pending, next to a sale of their own
C21_Witness ==
    /\ resp.op = "mark_sale_paid"
    /\ resp.success = "No tienes permiso para modificar esa venta."
    /\ \E s \in Sessions : LoggedIn(s) /\ ~current_is_admin(s)
          /\ resp.id \in DOMAIN sales
          /\ sales[resp.id].user_id # current_user_id(s)
          /\ sales[resp.id].status = "Pendiente"
          /\ \E j \in DOMAIN sales : sales[j].user_id = current_user_id(s)

\* C23: in every listing of /ventas the paid total plus the pending total
\* is the total amount of the listed sales
C23_PaidPlusPendingIsTotal ==
    Listed => resp.ctx.total_pagado + resp.ctx.total_pendiente
                = resp.ctx.total_monto

(***************************************************************************)
(* The claim about the accounts, checked under SpecUsuarios                *)
(***************************************************************************)
\* C22: in every state reached by logins, logouts, creations and deletions
\* of users from several sessions, some user is an administrator and every
\* logged-in session holds the id of a user of the table; and no request of
\* a session deletes the user whose id that session holds
C22_AdminExistsAndSessionsReferToUsers ==
    /\ [](/\ \E i \in DOMAIN users : users[i].is_admin
          /\ \A s \in UserSessions :
                LoggedIn(s) => \E i \in DOMAIN users : current_user_id(s) = Some(i))
    /\ [][\A s \in UserSessions, id \in DOMAIN users :
             (delete_user(s, id) /\ current_user_id(s) = Some(id)) =>
                id \in DOMAIN users']_vars

(***************************************************************************)
(* The claims about the pricing calculator, checked under SpecCalc         *)
(***************************************************************************)
\* the page shows the result of the calculator
Calculated == resp.op = "productos_calculator"

\* the fields the page echoes are numerals
NumericInputs(r) ==
    /\ r.ctx.cost_input \in Numerals
    /\ r.ctx.margin_input \in Numerals
    /\ r.ctx.quantity_input \in Numerals

\* the request asked for a cost <= 0 or a quantity <= 0
BadCostOrQuantity(r) ==
    ToNumber(r.ctx.cost_input) <= 0 \/ ToNumber(r.ctx.quantity_input) <= 0

\* the request asked for a margin below MIN_MARGIN_PERCENT
BelowFloor(r) == ToNumber(r.ctx.margin_input) < MIN_MARGIN_PERCENT

\* the response shows an error and no result
CalculatorFailed(r) ==
    /\ r.error # ""
    /\ r.ctx.price_result = None
    /\ r.ctx.profit_unit = None
    /\ r.ctx.profit_total = None
    /\ r.ctx.margin_used = None

\* C10 as stated: the calculator fails, computing and saving nothing, when
\* cost <= 0, quantity <= 0 or the margin is below MIN_MARGIN_PERCENT
C10_RejectsBelowFloor ==
    [][(/\ resp'.op = "productos_calculator"
        /\ NumericInputs(resp')
        /\ BadCostOrQuantity(resp') \/ BelowFloor(resp'))
       => CalculatorFailed(resp') /\ products' = products]_vars

\* the response shows the results for the cost at the margin
\* MIN_MARGIN_PERCENT, and no error when the product has a name
ComputedAtFloor(r) ==
    /\ r.ctx.margin_used = Some(MIN_MARGIN_PERCENT)
    /\ r.ctx.price_result =
         Some(ToNumber(r.ctx.cost_input) * (100 + MIN_MARGIN_PERCENT))
    /\ r.ctx.profit_unit # None
    /\ r.ctx.profit_total # None
    /\ r.ctx.product_name_input # "" => r.error = ""

\* C10 as amended: the calculator fails, computing and saving nothing, when
\* cost <= 0 or quantity <= 0; a margin below MIN_MARGIN_PERCENT is no error:
\* with cost > 0 and quantity > 0 the calculator computes with
\* MIN_MARGIN_PERCENT in its place
C10_RejectsCostAndQuantityClampsMargin ==
    [][(resp'.op = "productos_calculator" /\ NumericInputs(resp'))
       => /\ BadCostOrQuantity(resp')
             => CalculatorFailed(resp') /\ products' = products
          /\ (~BadCostOrQuantity(resp') /\ BelowFloor(resp'))
             => ComputedAtFloor(resp')]_vars

\* a margin of 5 % was sent with a cost of 50: the calculator answered without
\* an error, with the margin of 7 % and the price 53.50, and saved the product
C10_Witness ==
    /\ Calculated
    /\ resp.ctx.margin_input = "5"
    /\ resp.ctx.cost_input = "50"
    /\ resp.error = ""
    /\ resp.ctx.margin_used = Some(7)
    /\ resp.ctx.price_result = Some(5350)
    /\ \E i \in DOMAIN products : products[i].price = 5350

\* the request asked for a cost > 0, a quantity > 0 and a margin of at least
\* MIN_MARGIN_PERCENT
AcceptedInputs(r) ==
    /\ NumericInputs(r)
    /\ ~BadCostOrQuantity(r)
    /\ ~BelowFloor(r)

\* C11: for cost > 0, quantity > 0 and a margin of at least MIN_MARGIN_PERCENT
\* the calculator shows price = cost * (1 + margin / 100),
\* profit per unit = price - cost, total profit = profit per unit * quantity
\* and margin used = margin (prices and profits in hundredths)
C11_PriceFromCost ==
    (Calculated /\ AcceptedInputs(resp)) =>
        LET cost == ToNumber(resp.ctx.cost_input)
            margin == ToNumber(resp.ctx.margin_input)
            quantity == ToNumber(resp.ctx.quantity_input)
        IN /\ resp.ctx.price_result = Some(cost * 100 + cost * margin)
           /\ resp.ctx.profit_unit = Some(cost * margin)
           /\ resp.ctx.profit_total = Some(cost * margin * quantity)
           /\ resp.ctx.margin_used = Some(margin)

\* cost 50, margin 20 %, quantity 3: price 60.00, profit per unit 10.00,
\* total profit 30.00, margin used 20 %
C11_Witness ==
    /\ Calculated
    /\ resp.ctx.cost_input = "50"
    /\ resp.ctx.margin_input = "20"
    /\ resp.ctx.quantity_input = "3"
    /\ resp.ctx.price_result = Some(6000)
    /\ resp.ctx.profit_unit = Some(1000)
    /\ resp.ctx.profit_total = Some(3000)
    /\ resp.ctx.margin_used = Some(20)

(***************************************************************************)
(* The claims about the payment alerts, checked under SpecAlerts           *)
(***************************************************************************)
\* the page shows the dashboard
DashboardShown == resp.op = "dashboard" /\ resp.ctx # None

\* the dashboard shows an alert of this level and title
HasAlert(level, title) ==
    \E k \in DOMAIN resp.ctx.alerts :
        resp.ctx.alerts[k].level = level /\ resp.ctx.alerts[k].title = title

\* the pending sales with a due date before today
OverdueSales ==
    {i \in DOMAIN sales : /\ sales[i].status = "Pendiente"
                          /\ sales[i].payment_due_date # None
                          /\ sales[i].payment_due_date[1] < today}

\* the pending sales with a due date from today to today + UPCOMING_DAYS
UpcomingSales ==
    {i \in DOMAIN sales : /\ sales[i].status = "Pendiente"
                          /\ sales[i].payment_due_date # None
                          /\ today <= sales[i].payment_due_date[1]
                          /\ sales[i].payment_due_date[1] <= today + UPCOMING_DAYS}

\* C12 as stated: the dashboard shows the danger alert on overdue payments
\* whenever a pending sale is overdue, the warning alert on upcoming payments
\* whenever a pending sale is upcoming, whether or not others are overdue,
\* and neither alert when no pending sale is overdue or upcoming
C12_WarningWhateverIsOverdue ==
    DashboardShown =>
        /\ OverdueSales # {} => HasAlert("danger", "Pagos vencidos")
        /\ UpcomingSales # {} => HasAlert("warning", "Pagos próximos a vencer")
        /\ (OverdueSales = {} /\ UpcomingSales = {}) =>
              /\ ~HasAlert("danger", "Pagos vencidos")
              /\ ~HasAlert("warning", "Pagos próximos a vencer")

\* C12 as amended: the dashboard shows the danger alert on overdue payments
\* exactly when a pending sale is overdue, and the warning alert on upcoming
\* payments exactly when a pending sale is upcoming and none is overdue
C12_WarningOnlyWithoutOverdue ==
    DashboardShown =>
        /\ HasAlert("danger", "Pagos vencidos") <=> OverdueSales # {}
        /\ HasAlert("warning", "Pagos próximos a vencer")
              <=> (UpcomingSales # {} /\ OverdueSales = {})

\* one pending sale is overdue and another is upcoming: the dashboard shows
\* the danger alert for the one overdue sale and no warning
C12_Witness ==
    /\ DashboardShown
    /\ OverdueSales # {}
    /\ UpcomingSales # {}
    /\ resp.ctx.alerts = <<Alert("danger", "Pagos vencidos", <<1, 6000>>)>>

\* C13: a pending sale with a due date is overdue exactly when the due date
\* is before today and upcoming exactly when
\* today <= due date <= today + UPCOMING_DAYS; no sale is both, and a paid
\* sale is neither
C13_OverdueAndUpcoming ==
    \A s \in Sessions : LoggedIn(s) =>
        /\ \A i \in user_scope_query_Sale(s, sales) :
              /\ (sales[i].status = "Pendiente" /\ sales[i].payment_due_date # None)
                    => /\ i \in old_pending(s, sales, today)
                             <=> sales[i].payment_due_date[1] < today
                       /\ i \in upcoming_pending(s, sales, today)
                             <=> /\ today <= sales[i].payment_due_date[1]
                                 /\ sales[i].payment_due_date[1]
                                       <= today + UPCOMING_DAYS
              /\ sales[i].status = "Pagado"
                    => /\ i \notin old_pending(s, sales, today)
                       /\ i \notin upcoming_pending(s, sales, today)
        /\ old_pending(s, sales, today) \cap upcoming_pending(s, sales, today) = {}

\* the dashboard was shown with a pending sale due yesterday, which is overdue
\* and not upcoming, next to a paid sale: the alert counts one overdue sale
C13_Witness ==
    /\ DashboardShown
    /\ \E i, j \in DOMAIN sales :
          /\ sales[i].status = "Pendiente"
          /\ sales[i].payment_due_date = Some(today - 1)
          /\ i \in old_pending("s1", sales, today)
          /\ i \notin upcoming_pending("s1", sales, today)
          /\ sales[j].status = "Pagado"
    /\ resp.ctx.alerts = <<Alert("danger", "Pagos vencidos", <<1, 6000>>)>>

(***************************************************************************)
(* The claim about the weekly-profit alert, checked under SpecWeekly       *)
(***************************************************************************)
\* ALERT_WEEKLY_PROFIT_MIN is set to a number above 0
FloorConfigured ==
    /\ environ.ALERT_WEEKLY_PROFIT_MIN # None
    /\ IsNumeral(environ.ALERT_WEEKLY_PROFIT_MIN[1])
    /\ to_float(environ.ALERT_WEEKLY_PROFIT_MIN[1]) > 0

\* the sales dated from WEEK_DAYS days before today to today
SalesOfTheWeek ==
    {i \in DOMAIN sales : today - WEEK_DAYS <= sales[i].date /\ sales[i].date <= today}

\* C14: the dashboard shows the weekly-profit alert exactly when
\* ALERT_WEEKLY_PROFIT_MIN is set to a number above 0 and the profit of the
\* sales dated from 7 days before today to today sums to less than it; with
\* the variable unset the alert is never shown, and sales dated outside
\* those days do not count
C14_WeeklyProfitAlert ==
    DashboardShown =>
        /\ HasAlert("danger", "Utilidad semanal por debajo del objetivo")
              <=> /\ FloorConfigured
                  /\ sum_profit(sales, all_rows(SalesOfTheWeek))
                        < to_float(environ.ALERT_WEEKLY_PROFIT_MIN[1])
        /\ environ.ALERT_WEEKLY_PROFIT_MIN = None => resp.ctx.alerts = <<>>

\* with a floor of 3 the dashboard shows the alert for a weekly profit of 2:
\* that of the one sale of the week, while the other sale is dated outside it
C14_Witness ==
    /\ DashboardShown
    /\ environ.ALERT_WEEKLY_PROFIT_MIN = Some("3")
    /\ Cardinality(DOMAIN sales) = 2
    /\ Cardinality(SalesOfTheWeek) = 1
    /\ resp.ctx.alerts =
          <<Alert("danger", "Utilidad semanal por debajo del objetivo",
                  <<2000, 3000>>)>>

(***************************************************************************)
(* The claim about the products chart, checked under SpecTop               *)
(***************************************************************************)
\* the sales of the period the dashboard shows
PeriodSales ==
    {i \in DOMAIN sales :
        /\ resp.ctx.date_from # None => sales[i].date >= resp.ctx.date_from[1]
        /\ resp.ctx.date_to # None => sales[i].date <= resp.ctx.date_to[1]}

\* the profit the sales of the period make on product
ProductProfit(product) ==
    sum_profit(sales, all_rows({i \in PeriodSales : sales[i].product = product}))

\* the labels and values of the products chart are as many as the products of
\* the period, at most TOP_PRODUCTS, name distinct products, and the values
\* do not increase
TopShape ==
    /\ Len(resp.ctx.top_labels) = Len(resp.ctx.top_values)
    /\ LET distinct == Cardinality({sales[i].product : i \in PeriodSales})
       IN Len(resp.ctx.top_labels) =
             IF distinct < TOP_PRODUCTS THEN distinct ELSE TOP_PRODUCTS
    /\ \A k, l \in DOMAIN resp.ctx.top_labels :
          /\ k # l => resp.ctx.top_labels[k] # resp.ctx.top_labels[l]
          /\ k < l => resp.ctx.top_values[k] >= resp.ctx.top_values[l]

\* C15 as stated: the products chart has min(5, number of products) labels
\* and as many values, each value the sum of the profit of its product, in
\* non-increasing order
C15_TopValuesAreSums ==
    DashboardShown =>
        /\ TopShape
        /\ \A k \in DOMAIN resp.ctx.top_labels :
              resp.ctx.top_values[k] = ProductProfit(resp.ctx.top_labels[k])

\* C15 as amended: the products chart has min(5, number of products) labels
\* and as many values, each value the sum of the profit of its product
\* rounded to 2 decimals, in non-increasing order
C15_TopValuesAreRoundedSums ==
    DashboardShown =>
        /\ TopShape
        /\ \A k \in DOMAIN resp.ctx.top_labels :
              LET sum == ProductProfit(resp.ctx.top_labels[k])
                  value == resp.ctx.top_values[k]
              IN /\ value % 10 = 0
                 /\ value - 5 <= sum
                 /\ sum <= value + 5

\* six products were sold: the chart shows five, the first with the value
\* 2.01 for a profit of 2.008, and leaves out a product sold at a loss
C15_Witness ==
    /\ DashboardShown
    /\ Cardinality({sales[i].product : i \in DOMAIN sales}) = 6
    /\ Len(resp.ctx.top_labels) = 5
    /\ resp.ctx.top_values[1] = 2010
    /\ ProductProfit(resp.ctx.top_labels[1]) = 2008
    /\ resp.ctx.top_values[5] = -1000
    /\ \E i \in DOMAIN sales :
          /\ sales[i].profit = -1000
          /\ \A k \in DOMAIN resp.ctx.top_labels :
                resp.ctx.top_labels[k] # sales[i].product

(***************************************************************************)
(* The claim about the weeks chart, checked under SpecWeeks                *)
(***************************************************************************)
\* the sum of the elements of a sequence of numbers
RECURSIVE SumSeq(_)
SumSeq(seq) == IF seq = <<>> THEN 0 ELSE Head(seq) + SumSeq(Tail(seq))

\* the sales of the period whose date falls in the ISO week label names
SalesOfWeek(label) ==
    {i \in PeriodSales : sale_week_key(sales[i]) = label}

\* the labels of the weeks chart read "yyyy-Www", are pairwise distinct and
\* in ascending order as strings, and name the ISO weeks of the sales of the
\* period
WeekKeys ==
    /\ Len(resp.ctx.week_labels) = Len(resp.ctx.week_values)
    /\ \A k \in DOMAIN resp.ctx.week_labels :
          LET label == resp.ctx.week_labels[k]
          IN /\ Len(label) = 8
             /\ label[5] = 45 /\ label[6] = 87
             /\ \A c \in {1, 2, 3, 4, 7, 8} : label[c] \in 48 .. 57
             /\ SalesOfWeek(label) # {}
    /\ \A i \in PeriodSales :
          \E k \in DOMAIN resp.ctx.week_labels :
             resp.ctx.week_labels[k] = sale_week_key(sales[i])
    /\ \A k, l \in DOMAIN resp.ctx.week_labels :
          k < l => /\ resp.ctx.week_labels[k] # resp.ctx.week_labels[l]
                   /\ str_lt(resp.ctx.week_labels[k], resp.ctx.week_labels[l])

\* C16 as stated: the keys of the weeks chart read isoYear-W<two-digit
\* week>, are pairwise distinct and ascending as strings, and the values sum
\* to the profit of all the sales of the period
C16_WeekValuesSumToProfit ==
    DashboardShown =>
        /\ WeekKeys
        /\ SumSeq(resp.ctx.week_values) = sum_profit(sales, all_rows(PeriodSales))

\* C16 as amended: the keys of the weeks chart read isoYear-W<two-digit
\* week>, are pairwise distinct and ascending as strings, and each value is
\* the profit of the sales of its week rounded to 2 decimals
C16_WeekValuesAreRoundedSums ==
    DashboardShown =>
        /\ WeekKeys
        /\ \A k \in DOMAIN resp.ctx.week_labels :
              LET sum == sum_profit(sales,
                             all_rows(SalesOfWeek(resp.ctx.week_labels[k])))
                  value == resp.ctx.week_values[k]
              IN /\ value % 10 = 0
                 /\ value - 5 <= sum
                 /\ sum <= value + 5

\* sales of 2023-12-31, 2024-03-11 and 2024-12-30, each at a profit of 1.004:
\* the chart shows 2023-W52, 2024-W11 and 2025-W01 with the value 1.00 each
C16_Witness ==
    /\ DashboardShown
    /\ resp.ctx.week_labels =
          << <<50, 48, 50, 51, 45, 87, 53, 50>>,
             <<50, 48, 50, 52, 45, 87, 49, 49>>,
             <<50, 48, 50, 53, 45, 87, 48, 49>> >>
    /\ resp.ctx.week_values = <<1000, 1000, 1000>>
    /\ sum_profit(sales, all_rows(DOMAIN sales)) = 3012

(***************************************************************************)
(* The claims about the cash flow, checked under SpecFlujo                 *)
(***************************************************************************)
\* the page shows the cash flow
FlujoShown == resp.op \in {"flujo_get", "flujo_post"} /\ resp.ctx # None

\* the date lies in the period the page was asked for
InFlujoPeriod(date) ==
    /\ parse_date(resp.ctx.date_from) # None
          => date >= parse_date(resp.ctx.date_from)[1]
    /\ parse_date(resp.ctx.date_to) # None
          => date <= parse_date(resp.ctx.date_to)[1]

\* the profit of the sales of the period
FlujoProfit ==
    sum_profit(sales, all_rows({i \in DOMAIN sales : InFlujoPeriod(sales[i].date)}))

\* the amount of the expenses of the period (and of the category asked for,
\* if one was) that have this category
FlujoExpenses(category) ==
    sum_amount(expenses, all_rows(
        {i \in DOMAIN expenses :
            /\ InFlujoPeriod(expenses[i].date)
            /\ resp.ctx.category_filter # ""
                  => expenses[i].category = resp.ctx.category_filter
            /\ expenses[i].category = category}))

\* C17: the net the cash flow shows is the profit of the sales of the period
\* minus the sum of the operating expenses (Gasto) and the reinvestments
\* (Reinversión) of the period
C17_NetIsProfitMinusOutflows ==
    FlujoShown =>
        /\ resp.ctx.total_gastos = FlujoExpenses("Gasto")
        /\ resp.ctx.total_reinv = FlujoExpenses("Reinversión")
        /\ resp.ctx.neto =
              FlujoProfit - (FlujoExpenses("Gasto") + FlujoExpenses("Reinversión"))

\* a reinvestment of 5 was registered after an operating expense of 20, over
\* sales that make a profit: the net is the profit minus 25
C17_Witness ==
    /\ resp.op = "flujo_post"
    /\ resp.success = "Movimiento registrado correctamente."
    /\ resp.ctx.total_gastos = 20000
    /\ resp.ctx.total_reinv = 5000
    /\ FlujoProfit > 0
    /\ resp.ctx.neto = FlujoProfit - 25000

\* C18: the savings target is 10 % of the profit of the period, the actual
\* savings are max(net, 0), the shortfall is max(target - actual, 0), and the
\* target is met exactly when the profit is above 0 and the actual savings
\* reach the target; a met target has no shortfall, and no target is met on
\* a profit <= 0 (the three savings figures in hundredths of a thousandth)
C18_SavingsGoal ==
    FlujoShown =>
        LET target == resp.ctx.ahorro_objetivo
            actual == resp.ctx.ahorro_real
            shortfall == resp.ctx.ahorro_faltante
            met == resp.ctx.meta_cumplida
        IN /\ target * 10 = FlujoProfit * 100
           /\ actual = 100 * (IF resp.ctx.neto > 0 THEN resp.ctx.neto ELSE 0)
           /\ shortfall = IF target - actual > 0 THEN target - actual ELSE 0
           /\ met <=> (FlujoProfit > 0 /\ actual >= target)
           /\ met => shortfall = 0
           /\ FlujoProfit <= 0 => ~met

\* sales with the profits 50, -10 and 30 and expenses of 20 and 5: the net is
\* 45, the target 7, and the target is met
C18_Witness ==
    /\ FlujoShown
    /\ {sales[i].profit : i \in DOMAIN sales} = {50000, -10000, 30000}
    /\ {expenses[i].amount : i \in DOMAIN expenses} = {20000, 5000}
    /\ resp.ctx.neto = 45000
    /\ resp.ctx.ahorro_objetivo = 700000
    /\ resp.ctx.ahorro_faltante = 0
    /\ resp.ctx.meta_cumplida

\* C19: every stored expense has an amount > 0 and the category Gasto or
\* Reinversión
C19_ExpenseAmountAndCategory ==
    \A i \in DOMAIN expenses :
        /\ expenses[i].amount > 0
        /\ expenses[i].category \in {"Gasto", "Reinversión"}

====
